---- MODULE Spec2Model ----
(***************************************************************************)
(* Model of the XML-RPC pinger Worker (src/src/index.ts): the manual POST  *)
(* trigger (fetch), the cron trigger (scheduled), doPing with its batch    *)
(* planner and worker pool, and the KV namespace the invocations share.    *)
(* Every await of the source is an interleaving point: one action is the   *)
(* code that runs between two awaits, with the awaited KV operation.       *)
(***************************************************************************)
EXTENDS Integers, Sequences, FiniteSets, TLC

VARIABLES env, kv, inv, started, fanouts, drv, io

vars == <<env, kv, inv, started, fanouts, drv, io>>

----------------------------------------------------------------------------
(* Bounds of the model *)

\* invocations started in one behaviour, all of which may overlap
MaxStarts == 2

\* the invocations, numbered in the order they start
Inv == 1..MaxStarts

----------------------------------------------------------------------------
(* Program constants *)

RL_KEY == "xmlrpc:last-ping"
LAST_KEY == "xmlrpc:last-seen"
EP_KEY == "xmlrpc:endpoints"
RESULT_KEY == "xmlrpc:last-result"
DRY_KEY == "xmlrpc:last-dry"

REQUEST_KEY == "xmlrpc:last-request"
Keys == {RL_KEY, LAST_KEY, EP_KEY, RESULT_KEY, DRY_KEY, REQUEST_KEY}

HOUR == 3600
ResultTtl == 604800
DryTtl == 86400

DefaultBudget == 45
BudgetCeiling == 1000
DefaultConcurrency == 6
ConcurrencyInputCeiling == 10
ConcurrencyCeiling == 6

minimal_endpoints == <<"m1", "m2", "m3", "m4", "m5", "m6", "m7", "m8", "m9">>

\* an absent value: KV get of a missing key, an unset env var, a missing field
None == [t |-> "none"]

----------------------------------------------------------------------------
(* Pure helpers *)

Max(a, b) == IF a >= b THEN a ELSE b
Min(a, b) == IF a <= b THEN a ELSE b

\* Array.prototype.slice(s, e): relative indices, clamped to the array
RelIndex(k, len) == IF k < 0 THEN Max(len + k, 0) ELSE Min(k, len)

JsSlice(arr, s, e) ==
    LET from == RelIndex(s, Len(arr))
        to == RelIndex(e, Len(arr))
    IN IF from >= to THEN <<>> ELSE SubSeq(arr, from + 1, to)

\* a number that may be NaN: Num(n), or NaN
Num(n) == [t |-> "num", v |-> n]
NaN == [t |-> "nan"]

\* Number(env.X ?? dflt) for an env var that is unset, holds an integer, or
\* holds text that is no number
JsNumber(v, dflt) == IF v = None THEN Num(dflt) ELSE v

\* Math.max and Math.min: NaN as soon as one argument is NaN
MathMax(a, b) == IF a = NaN \/ b = NaN THEN NaN ELSE Num(Max(a.v, b.v))
MathMin(a, b) == IF a = NaN \/ b = NaN THEN NaN ELSE Num(Min(a.v, b.v))

\* doPing: const rawBudget = Number(env.SUBREQ_BUDGET ?? 45);
\* const SUBREQ_BUDGET = Math.max(1, Math.min(rawBudget, 1000))
SUBREQ_BUDGET(e) ==
    MathMax(Num(1), MathMin(JsNumber(e.SUBREQ_BUDGET, DefaultBudget), Num(BudgetCeiling)))

\* doPing: the default of opts.concurrency, then MAX_CONCURRENCY
MAX_CONCURRENCY(e) ==
    LET concurrency == MathMax(Num(1), MathMin(JsNumber(e.PING_CONCURRENCY, DefaultConcurrency),
                                               Num(ConcurrencyInputCeiling)))
    IN MathMax(Num(1), MathMin(concurrency, Num(ConcurrencyCeiling)))

\* Array.from({length: x}): ToLength(x), which is 0 for NaN and below 0
ToLength(x) == IF x = NaN THEN 0 ELSE Max(0, x.v)

\* fetch: typeof body.cursor === "number" ? body.cursor : cursorQ ? Number(cursorQ) : 0
CursorOf(bodyCursor, cursorQ) ==
    IF bodyCursor # None THEN bodyCursor.v
    ELSE IF cursorQ # None THEN cursorQ.v ELSE 0

\* ResolveEndpoints that takes the list of the payload before the stored one
ResolveEndpointsPayloadFirst(kvList, payloadEps, envEps) ==
    IF payloadEps.t = "list" THEN payloadEps.v
    ELSE IF kvList.t = "list" /\ Len(kvList.v) # 0 THEN kvList.v
    ELSE IF envEps # None THEN envEps.v
    ELSE minimal_endpoints

\* doPing: the endpoint list of the invocation, before the limit
ResolveEndpoints(kvList, payloadEps, envEps) ==
    LET fromKv == IF kvList.t = "list" THEN kvList.v ELSE <<>>
    IN IF Len(fromKv) # 0 THEN fromKv
       ELSE IF payloadEps.t = "list" THEN payloadEps.v
       ELSE IF envEps # None THEN envEps.v
       ELSE minimal_endpoints

\* doPing: the statements that build the list and the batch throw when the
\* stored value is no JSON (KV.get "json"), when env.PING_ENDPOINTS is reached
\* and is no JSON (JSON.parse), or is JSON without slice (endpoints.slice)
ResolveThrows(kvList, payloadEps, envEps) ==
    \/ kvList.t = "badjson"
    \/ /\ ~(kvList.t = "list" /\ Len(kvList.v) # 0)
       /\ payloadEps.t # "list"
       /\ envEps.t \in {"badjson", "json"}

\* ApplyLimit that cuts whenever a limit is given: slice(0, 0) for limit 0,
\* slice(0, -1) for limit -1
ApplyLimitAlways(endpoints, limit) == JsSlice(endpoints, 0, limit)

\* doPing: if (limit > 0) endpoints = endpoints.slice(0, limit)
ApplyLimit(endpoints, limit) == IF limit > 0 THEN JsSlice(endpoints, 0, limit) ELSE endpoints

\* Plan with the cursor used as it comes, without max(0, cursor)
PlanNoClamp(endpoints, budget, cursor) ==
    LET start == cursor
        end == Min(Len(endpoints), start + budget)
    IN [start |-> start,
        end |-> end,
        batch |-> JsSlice(endpoints, start, end),
        nextCursor |-> IF end < Len(endpoints) THEN [t |-> "num", v |-> end] ELSE None]

\* Plan with end <= length where the source has end < length
PlanNextInclusive(endpoints, budget, cursor) ==
    LET start == Max(0, cursor)
        end == Min(Len(endpoints), start + budget)
    IN [start |-> start,
        end |-> end,
        batch |-> JsSlice(endpoints, start, end),
        nextCursor |-> IF end <= Len(endpoints) THEN [t |-> "num", v |-> end] ELSE None]

\* Plan handing back the index of the last endpoint of the batch
PlanNextLast(endpoints, budget, cursor) ==
    LET start == Max(0, cursor)
        end == Min(Len(endpoints), start + budget)
    IN [start |-> start,
        end |-> end,
        batch |-> JsSlice(endpoints, start, end),
        nextCursor |-> IF end < Len(endpoints) THEN [t |-> "num", v |-> end + 1] ELSE None]

\* doPing: the batch planner
Plan(endpoints, budget, cursor) ==
    LET start == Max(0, cursor)
        end == Min(Len(endpoints), start + budget)
    IN [start |-> start,
        end |-> end,
        batch |-> JsSlice(endpoints, start, end),
        nextCursor |-> IF end < Len(endpoints) THEN [t |-> "num", v |-> end] ELSE None]

\* doPing: the batch planner when the budget is NaN: start + NaN and
\* Math.min of it are NaN, slice(start, NaN) ends at 0 and is empty, and
\* NaN < endpoints.length is false
PlanNaN(endpoints, cursor) ==
    [start |-> Max(0, cursor), end |-> NaN, batch |-> <<>>, nextCursor |-> None]

\* doPing: start, end, batch and nextCursor under a budget that is a number
\* or NaN
PlanFor(endpoints, budget, cursor) ==
    IF budget = NaN THEN PlanNaN(endpoints, cursor) ELSE Plan(endpoints, budget.v, cursor)

----------------------------------------------------------------------------
(* The request body: xmlRpc and escapeXml. A text is a sequence of          *)
(* one-character strings; the fixed markup of the template is kept as whole *)
(* tokens, which no character of a parameter can equal                      *)

AMP == <<"&", "a", "m", "p", ";">>
LT == <<"&", "l", "t", ";">>
GT == <<"&", "g", "t", ";">>
QUOT == <<"&", "q", "u", "o", "t", ";">>
APOS == <<"&", "a", "p", "o", "s", ";">>

RECURSIVE JoinAll(_)
\* Array.prototype.join("")
JoinAll(parts) == IF parts = <<>> THEN <<>> ELSE Head(parts) \o JoinAll(Tail(parts))

\* String.prototype.replaceAll with a one-character pattern: every character
\* of the text that is ch gives rep, any other gives itself (the text is
\* bound to its value once)
ReplaceAll(s, ch, rep) ==
    CHOOSE r \in {JoinAll([k \in 1..Len(t) |-> IF t[k] = ch THEN rep ELSE <<t[k]>>]) : t \in {s}} :
        TRUE

\* variant: the ampersand is replaced after the other four characters
escapeXmlAmpLast(s) ==
    ReplaceAll(ReplaceAll(ReplaceAll(ReplaceAll(ReplaceAll(s,
        "<", LT), ">", GT), "\"", QUOT), "'", APOS), "&", AMP)

escapeXml(s) ==
    ReplaceAll(ReplaceAll(ReplaceAll(ReplaceAll(ReplaceAll(s,
        "&", AMP), "<", LT), ">", GT), "\"", QUOT), "'", APOS)

XML_HEAD == "<?xml version=\"1.0\"?>\n<methodCall>\n  <methodName>"
XML_MID == "</methodName>\n  <params>"
XML_TAIL == "</params>\n</methodCall>"
PARAM_OPEN == "<param><value><string>"
PARAM_CLOSE == "</string></value></param>"

\* variant: the parameters are put into the template as they are
xmlRpcRaw(method, params) ==
    <<XML_HEAD, method, XML_MID>>
       \o JoinAll([k \in 1..Len(params) |-> <<PARAM_OPEN>> \o params[k] \o <<PARAM_CLOSE>>])
       \o <<XML_TAIL>>

\* String(p) of a parameter that is a string is that string
xmlRpc(method, params) ==
    <<XML_HEAD, method, XML_MID>>
       \o JoinAll([k \in 1..Len(params) |->
                      <<PARAM_OPEN>> \o escapeXml(params[k]) \o <<PARAM_CLOSE>>])
       \o <<XML_TAIL>>

\* a text value of the environment or of a JSON body
Str(s) == [t |-> "str", v |-> s]
\* a ?? b
Nullish(a, b) == IF a = None THEN b ELSE a
\* the truth value of a text or null: the empty text and null are falsy
Truthy(v) == v # None /\ v.v # <<>>

DEFAULT_SITE_NAME == <<"V", "i", "o", "r", "e", "l", " ", "M", "o", "c", "a", "n", "u">>
DEFAULT_SITE_URL ==
    <<"h", "t", "t", "p", "s", ":", "/", "/", "w", "w", "w", ".", "v", "i", "o", "r", "e", "l",
      "m", "o", "c", "a", "n", "u", ".", "r", "o">>

\* the members of the payload that describe the site; none given
NoSite == [siteName |-> None, siteUrl |-> None, feedUrl |-> None]

\* doPing: siteName, siteUrl and feedUrl of payload p under environment e
Site(p, e) ==
    [siteName |-> Nullish(p.siteName, Nullish(e.SITE_NAME, Str(DEFAULT_SITE_NAME))),
     siteUrl |-> Nullish(p.siteUrl, Nullish(e.SITE_URL, Str(DEFAULT_SITE_URL))),
     feedUrl |-> Nullish(p.feedUrl, Nullish(e.FEED_URL, None))]

\* MethodOf that takes a feed URL that is the empty text for a feed URL
MethodOfPresent(feedUrl) ==
    IF feedUrl # None THEN "weblogUpdates.extendedPing" ELSE "weblogUpdates.ping"

\* doPing: const method = feedUrl ? "weblogUpdates.extendedPing" : "weblogUpdates.ping"
MethodOf(feedUrl) ==
    IF Truthy(feedUrl) THEN "weblogUpdates.extendedPing" ELSE "weblogUpdates.ping"

\* doPing: const params = feedUrl ? [siteName, siteUrl, feedUrl] : [siteName, siteUrl]
Params(site) ==
    IF Truthy(site.feedUrl) THEN <<site.siteName.v, site.siteUrl.v, site.feedUrl.v>>
    ELSE <<site.siteName.v, site.siteUrl.v>>

\* doPing: the site, the method and the body every ping request of the run
\* carries
Rpc(site) ==
    [site |-> site,
     method |-> MethodOf(site.feedUrl),
     bodyXml |-> xmlRpc(MethodOf(site.feedUrl), Params(site))]

----------------------------------------------------------------------------
(* Inputs *)

List(l) == [t |-> "list", v |-> l]

\* the status each endpoint answers with; 0 stands for no response at all
EndpointStatus(url) ==
    CASE url = "a" -> 200
      [] url = "b" -> 500
      [] url = "d" -> 301
      [] url = "f" -> 204
      [] OTHER -> 0

\* what becomes of the request to an endpoint when no deadline cuts it short:
\* a response arrives, fetch rejects (no route, reset), or nothing ever comes
EndpointFate(url) ==
    CASE url \in {"a", "b", "d", "f"} -> "response"
      [] url = "e" -> "failure"
      [] OTHER -> "silent"

\* values of env.SUBREQ_BUDGET and env.PING_CONCURRENCY
BudgetValues == {None, Num(1), Num(2)}
ConcurrencyValues == {None, Num(1)}
\* the list stored under xmlrpc:endpoints, when one is stored
StoredLists == {None, List(<<"a", "b", "c">>)}
\* env.PING_ENDPOINTS, parsed
EnvLists == {List(<<"b", "a">>)}
\* payload.endpoints
PayloadLists == {None, List(<<>>)}
\* body.cursor and the cursor query parameter
BodyCursors == {None, Num(2)}
QueryCursors == {None, Num(-1), Num(1), Num(4)}
\* the limit query parameter
Limits == {-1, 0, 2}
\* the narrower inputs of the runs that race each other; their endpoints
\* answer before the deadline
RaceBudgets == {Num(1)}
RaceQueryCursors == {None}
RaceChangeIds == {"c1"}
\* what the deploy detector reports: no id, an id, or a failure
ChangeIds == {"c1", "c2"}
DetectorOutcomes(ids) == {None, [t |-> "throw"]} \cup {[t |-> "id", id |-> c] : c \in ids}

\* what the detector's API call comes to: the detector is not configured
\* ("unset"), the fetch rejects ("reject"), the response is not ok ("notok"),
\* its body is no JSON ("badjson"), the JSON holds no id ("noid"), or it holds
\* one
DetectorAnswers(ids) ==
    {[t |-> w] : w \in {"unset", "reject", "notok", "badjson", "noid"}}
       \cup {[t |-> "id", id |-> c] : c \in ids}

\* latestGithubCommit, latestCloudflareDeploy: null, the id, or an exception
Detect(a) ==
    CASE a.t = "id" -> [t |-> "id", id |-> a.id]
      [] a.t \in {"reject", "badjson"} -> [t |-> "throw", why |-> a.t]
      [] OTHER -> [t |-> "none", why |-> a.t]

----------------------------------------------------------------------------
(* State *)

NoPlan == [start |-> 0, end |-> 0, batch |-> <<>>, nextCursor |-> None]

\* a free invocation slot
IdleInv ==
    [kind |-> "none", serial |-> 0, pc |-> "idle",
     dry |-> FALSE, verbose |-> FALSE, cursor |-> 0, limit |-> 0, only |-> "all",
     pEndpoints |-> None,
     detected |-> None, latest |-> None, seen |-> None, rl |-> None,
     pSite |-> NoSite, rpc |-> None,
     endpoints |-> <<>>, plan |-> NoPlan,
     i |-> 0, inflight |-> {}, summary |-> <<>>,
     res |-> None, log |-> <<>>, endSerial |-> 0,
     req |-> None, http |-> 0]

\* one entry of an invocation's trace of KV operations and ping requests
Ev(op, k, at, idx) == [op |-> op, k |-> k, at |-> at, idx |-> idx]

\* the caller's cursor loop of the first-run guide; off when no loop runs
DrvOff ==
    [pc |-> "off", dry |-> FALSE, limit |-> 0, pEndpoints |-> None, cursor |-> 0, calls |-> 0,
     last |-> "none", planned |-> <<>>, slices |-> <<>>, pinged |-> <<>>]

\* the marker a real run before the first modelled invocation may have left
EarlierMarker == [t |-> "marker", by |-> 0, at |-> "doPing", ttl |-> HOUR]

EnvOf(b, c, l) ==
    [SUBREQ_BUDGET |-> b, PING_CONCURRENCY |-> c, PING_ENDPOINTS |-> l,
     SITE_NAME |-> None, SITE_URL |-> None, FEED_URL |-> None]

\* io holds the call of a text-producing function: no call is under way
NoCall == [pc |-> "none"]

Init ==
    /\ env \in {EnvOf(b, None, l) : b \in RaceBudgets, l \in EnvLists}
    /\ \E rl \in {None, EarlierMarker} :
          /\ kv = [k \in Keys |-> IF k = RL_KEY THEN rl ELSE None]
          /\ fanouts = IF rl = None THEN {} ELSE {0}
    /\ inv = [i \in Inv |-> IdleInv]
    /\ started = 0
    /\ drv = DrvOff
    /\ io = NoCall

----------------------------------------------------------------------------
(* doPing *)

\* KV put: the value stored, with the invocation that wrote it
Marker(me, at) == [t |-> "marker", by |-> me.serial, at |-> at, ttl |-> HOUR]
ResultRec(me, at, latest, result, ttl) ==
    [t |-> "result", by |-> me.serial, at |-> at, latest |-> latest, result |-> result, ttl |-> ttl]

Logged(me, op, k, at) == [me EXCEPT !.log = Append(@, Ev(op, k, at, -1))]

\* where the caller of doPing resumes once doPing has returned
AfterDoPing(me) == IF me.kind = "manual" THEN "persist" ELSE "sched_mark"

\* an exception leaves the handler: fetch has no try, so the runtime answers
\* with an error; scheduled catches it, logs it and returns
Thrown(me) ==
    [me EXCEPT !.pc = IF me.kind = "manual" THEN "threw" ELSE "ended",
               !.http = IF me.kind = "manual" THEN 500 ELSE 0,
               !.endSerial = started]

\* Response.ok of the Fetch API
ResOk(st) == st >= 200 /\ st <= 299

\* pingWithTimeout, catch: the record of a request that gave no response
Caught(url, e) == [url |-> url, ok |-> FALSE, status |-> 0, error |-> e]

\* PingOutcome that counts every status below 400 as a success
PingOutcomeRedirectOk(url) ==
    IF EndpointFate(url) = "response"
    THEN [url |-> url, ok |-> (EndpointStatus(url) >= 200 /\ EndpointStatus(url) <= 399),
          status |-> EndpointStatus(url)]
    ELSE Caught(url, "TypeError: fetch failed")

\* pingWithTimeout: the record of one endpoint whose fetch settled by itself;
\* redirect: "manual" hands a 3xx back as the response; a record of a
\* response has no error member
PingOutcome(url) ==
    IF EndpointFate(url) = "response"
    THEN [url |-> url, ok |-> ResOk(EndpointStatus(url)), status |-> EndpointStatus(url)]
    ELSE Caught(url, "TypeError: fetch failed")

\* the text of the response of each endpoint: 203 characters from b, five
\* from d
EndpointBody(url) ==
    CASE url = "b" -> [n \in 1..203 |-> IF n % 2 = 1 THEN "<" ELSE "x"]
      [] url = "d" -> <<"m", "o", "v", "e", "d">>
      [] OTHER -> <<"o", "k">>

\* the length a body snippet is cut to
SNIPPET_MAX == 200

\* Snippet that reads the body whether verbose is on or not
SnippetAlways(record, url, verbose, readOk) ==
    IF "error" \notin DOMAIN record /\ ~record.ok /\ readOk
    THEN [url |-> record.url, ok |-> record.ok, status |-> record.status,
          bodySnippet |-> JsSlice(EndpointBody(url), 0, SNIPPET_MAX)]
    ELSE record

\* pingWithTimeout, after the response: if (verbose && !res.ok)
\* try { record.bodySnippet = (await res.text()).slice(0, 200) } catch {};
\* readOk tells whether res.text() resolved
Snippet(record, url, verbose, readOk) ==
    IF verbose /\ "error" \notin DOMAIN record /\ ~record.ok /\ readOk
    THEN [url |-> record.url, ok |-> record.ok, status |-> record.status,
          bodySnippet |-> JsSlice(EndpointBody(url), 0, SNIPPET_MAX)]
    ELSE record

\* pingWithTimeout: ctrl.abort("timeout") rejects the fetch with "timeout"
TimeoutOutcome(url) == Caught(url, "timeout")

\* OnlyFilter that knows of only=fail alone
OnlyFilterFailAlone(summary, only) ==
    LET IsFail(r) == ~r.ok
    IN IF only = "fail" THEN SelectSeq(summary, IsFail) ELSE summary

\* doPing: the only filter on the summary
OnlyFilter(summary, only) ==
    LET IsFail(r) == ~r.ok
        IsOk(r) == r.ok
        s1 == IF only = "fail" THEN SelectSeq(summary, IsFail) ELSE summary
    IN IF only = "success" THEN SelectSeq(s1, IsOk) ELSE s1

\* Report with the totals counted before the only filter is applied
ReportTotalsBeforeFilter(me) ==
    LET summary == OnlyFilter(me.summary, me.only)
        IsOk(r) == r.ok
        IsFail(r) == ~r.ok
    IN [status |-> "done",
        dryRun |-> me.dry,
        method |-> me.rpc.method,
        siteName |-> me.rpc.site.siteName,
        siteUrl |-> me.rpc.site.siteUrl,
        feedUrl |-> me.rpc.site.feedUrl,
        totals |-> [total |-> Len(me.endpoints),
                    batchStart |-> me.plan.start,
                    batchEnd |-> me.plan.end,
                    batchCount |-> Len(me.plan.batch),
                    ok |-> Len(SelectSeq(me.summary, IsOk)),
                    fail |-> Len(SelectSeq(me.summary, IsFail))],
        summary |-> summary,
        nextCursor |-> me.plan.nextCursor,
        subrequestBudget |-> SUBREQ_BUDGET(env),
        concurrencyUsed |-> MAX_CONCURRENCY(env)]

\* doPing after runPool: filter, totals and the report that is returned
Report(me) ==
    LET summary == OnlyFilter(me.summary, me.only)
        IsOk(r) == r.ok
        IsFail(r) == ~r.ok
    IN [status |-> "done",
        dryRun |-> me.dry,
        method |-> me.rpc.method,
        siteName |-> me.rpc.site.siteName,
        siteUrl |-> me.rpc.site.siteUrl,
        feedUrl |-> me.rpc.site.feedUrl,
        totals |-> [total |-> Len(me.endpoints),
                    batchStart |-> me.plan.start,
                    batchEnd |-> me.plan.end,
                    batchCount |-> Len(me.plan.batch),
                    ok |-> Len(SelectSeq(summary, IsOk)),
                    fail |-> Len(SelectSeq(summary, IsFail))],
        summary |-> summary,
        nextCursor |-> me.plan.nextCursor,
        subrequestBudget |-> SUBREQ_BUDGET(env),
        concurrencyUsed |-> MAX_CONCURRENCY(env)]

\* the pool has drained: build the report; a real run goes on to save it
Finish(me) ==
    [me EXCEPT !.res = Report(me),
               !.pc = IF me.dry THEN AfterDoPing(me) ELSE "save"]

\* the ping request of batch position idx (0-based) is issued
Issue(me, idx) ==
    [me EXCEPT !.inflight = @ \cup {idx},
               !.log = Append(@, Ev("ping", me.plan.batch[idx + 1], "doPing", me.plan.start + idx))]

RECURSIVE IssueFirst(_, _, _)
IssueFirst(me, idx, n) == IF idx >= n THEN me ELSE IssueFirst(Issue(me, idx), idx + 1, n)

\* runPool: min(size, items.length) workers start, each takes idx = i++ and
\* issues its request before the first await
StartPool(me) ==
    LET n == Len(me.plan.batch)
        workers == ToLength(MathMin(MAX_CONCURRENCY(env), Num(n)))
    IN IF workers = 0 THEN Finish(me)
       ELSE [IssueFirst(me, 0, workers) EXCEPT !.i = workers, !.pc = "pool"]

\* a real fan-out that issues requests while the marker is stored
Fanned(before, after) ==
    IF ~after.dry /\ Len(after.log) > Len(before.log) /\ after.log[Len(after.log)].op = "ping"
       /\ kv'[RL_KEY] # None
    THEN fanouts \cup {after.serial} ELSE fanouts

\* RateCheck with the early return lost: the run goes on whatever it read
RateCheckNoReturn(i) ==
    /\ inv[i].pc = "rate_check"
    /\ inv' = [inv EXCEPT ![i] = [Logged(inv[i], "get", RL_KEY, "doPing") EXCEPT
                                    !.rl = kv[RL_KEY], !.pc = "resolve"]]
    /\ UNCHANGED <<env, io, kv, started, fanouts, drv>>

\* doPing: if (!dryRun) { rl = await KV.get(RL_KEY); if (rl) return skipped }
RateCheck(i) ==
    /\ inv[i].pc = "rate_check"
    /\ LET rl == kv[RL_KEY]
           me == [Logged(inv[i], "get", RL_KEY, "doPing") EXCEPT !.rl = rl]
       IN inv' = [inv EXCEPT ![i] =
                    IF rl # None
                    THEN [me EXCEPT !.res = [status |-> "skipped", reason |-> "rate-limited (<=1/hour)"],
                                    !.pc = AfterDoPing(me)]
                    ELSE [me EXCEPT !.pc = "resolve"]]
    /\ UNCHANGED <<env, io, kv, started, fanouts, drv>>

\* doPing: read xmlrpc:endpoints, choose the list, apply the limit, plan the
\* batch and build the request body (bound to its value once); a dry run
\* goes straight on to runPool, a real run awaits the put
Resolve(i) ==
    /\ inv[i].pc = "resolve"
    /\ \E rpc \in {Rpc(Site(inv[i].pSite, env))} :
       LET kvList == kv[EP_KEY]
           read == Logged(inv[i], "get", EP_KEY, "doPing")
           endpoints == ApplyLimit(ResolveEndpoints(kvList, inv[i].pEndpoints, env.PING_ENDPOINTS), inv[i].limit)
           me == [read EXCEPT
                     !.endpoints = endpoints,
                     !.plan = PlanFor(endpoints, SUBREQ_BUDGET(env), inv[i].cursor),
                     !.rpc = rpc]
           after == IF ResolveThrows(kvList, inv[i].pEndpoints, env.PING_ENDPOINTS) THEN Thrown(read)
                    ELSE IF me.dry THEN StartPool(me) ELSE [me EXCEPT !.pc = "acquire"]
       IN /\ inv' = [inv EXCEPT ![i] = after]
          /\ kv' = kv
          /\ fanouts' = Fanned(read, after)
    /\ UNCHANGED <<env, io, started, drv>>

\* Acquire with the put left out: the run dispatches without the marker
AcquireNoPut(i) ==
    /\ inv[i].pc = "acquire"
    /\ inv' = [inv EXCEPT ![i].pc = "dispatch"]
    /\ UNCHANGED <<env, io, kv, started, fanouts, drv>>

\* doPing: if (!dryRun) await KV.put(RL_KEY, now, {expirationTtl: HOUR})
Acquire(i) ==
    /\ inv[i].pc = "acquire"
    /\ kv' = [kv EXCEPT ![RL_KEY] = Marker(inv[i], "doPing")]
    /\ inv' = [inv EXCEPT ![i] = [Logged(inv[i], "put", RL_KEY, "doPing") EXCEPT !.pc = "dispatch"]]
    /\ UNCHANGED <<env, io, started, fanouts, drv>>

\* doPing: runPool(batch, MAX_CONCURRENCY, pingWithTimeout) of a real run
Dispatch(i) ==
    /\ inv[i].pc = "dispatch"
    /\ LET after == StartPool(inv[i])
       IN /\ inv' = [inv EXCEPT ![i] = after]
          /\ kv' = kv
          /\ fanouts' = Fanned(inv[i], after)
    /\ UNCHANGED <<env, io, started, drv>>

\* runPool worker: results.push(await fn(items[idx])); idx = i++; the worker
\* issues the next request or leaves, and the last one to leave ends the pool
Settle(i, idx, outcome) ==
    /\ inv[i].pc = "pool"
    /\ idx \in inv[i].inflight
    /\ LET n == Len(inv[i].plan.batch)
           next == inv[i].i
           got == [inv[i] EXCEPT !.summary = Append(@, outcome),
                                 !.inflight = @ \ {idx},
                                 !.i = next + 1]
           pulled == IF next < n THEN Issue(got, next) ELSE got
           after == IF pulled.inflight = {} THEN Finish(pulled) ELSE pulled
       IN /\ inv' = [inv EXCEPT ![i] = after]
          /\ kv' = kv
          /\ fanouts' = Fanned(got, pulled)
    /\ UNCHANGED <<env, io, started, drv>>

\* PingDone without the catch of pingWithTimeout: a rejected fetch rejects the
\* worker, Promise.all and doPing
PingDoneNoCatch(i, idx) ==
    /\ idx \in inv[i].inflight
    /\ EndpointFate(inv[i].plan.batch[idx + 1]) # "silent"
    /\ IF EndpointFate(inv[i].plan.batch[idx + 1]) = "failure"
       THEN /\ inv[i].pc = "pool"
            /\ inv' = [inv EXCEPT ![i] = Thrown([inv[i] EXCEPT !.inflight = @ \ {idx}])]
            /\ UNCHANGED <<env, io, kv, started, fanouts, drv>>
       ELSE Settle(i, idx, PingOutcome(inv[i].plan.batch[idx + 1]))

\* pingWithTimeout: the fetch of batch position idx settles, with a response
\* or with a rejection
PingDone(i, idx) ==
    /\ idx \in inv[i].inflight
    /\ EndpointFate(inv[i].plan.batch[idx + 1]) # "silent"
    /\ \E readOk \in BOOLEAN :
          Settle(i, idx, Snippet(PingOutcome(inv[i].plan.batch[idx + 1]),
                                 inv[i].plan.batch[idx + 1], inv[i].verbose, readOk))

\* PingTimeout with a timer that is never armed
PingTimeoutNever(i, idx) ==
    /\ idx \in {}
    /\ Settle(i, idx, TimeoutOutcome(inv[i].plan.batch[idx + 1]))

\* pingWithTimeout: the timer fires before the fetch has settled
PingTimeout(i, idx) ==
    /\ idx \in inv[i].inflight
    /\ Settle(i, idx, TimeoutOutcome(inv[i].plan.batch[idx + 1]))

\* Save that records the change of the latest post as seen as well
SaveMarksSeen(i) ==
    /\ inv[i].pc = "save"
    /\ kv' = [kv EXCEPT ![RESULT_KEY] =
                 ResultRec(inv[i], "doPing", None,
                           [siteName |-> inv[i].res.siteName, siteUrl |-> inv[i].res.siteUrl,
                            feedUrl |-> inv[i].res.feedUrl, summary |-> inv[i].res.summary],
                           ResultTtl),
                        ![LAST_KEY] = [t |-> "id", v |-> "c1"]]
    /\ inv' = [inv EXCEPT ![i] = [Logged(Logged(inv[i], "put", RESULT_KEY, "doPing"),
                                         "put", LAST_KEY, "doPing")
                                    EXCEPT !.pc = AfterDoPing(inv[i])]]
    /\ UNCHANGED <<env, io, started, fanouts, drv>>

\* doPing: if (!dryRun) await KV.put("xmlrpc:last-result", {time, result: {site, summary}})
Save(i) ==
    /\ inv[i].pc = "save"
    /\ kv' = [kv EXCEPT ![RESULT_KEY] =
                ResultRec(inv[i], "doPing", None,
                          [siteName |-> inv[i].res.siteName, siteUrl |-> inv[i].res.siteUrl,
                           feedUrl |-> inv[i].res.feedUrl, summary |-> inv[i].res.summary],
                          ResultTtl)]
    /\ inv' = [inv EXCEPT ![i] = [Logged(inv[i], "put", RESULT_KEY, "doPing") EXCEPT !.pc = AfterDoPing(inv[i])]]
    /\ UNCHANGED <<env, io, started, fanouts, drv>>

----------------------------------------------------------------------------
(* fetch: the manual trigger *)

\* StartManual with the rate check applied to dry runs as well
StartManualChecked(i, dry, cursor, limit, only, pEps) ==
    [IdleInv EXCEPT !.kind = "manual", !.serial = started + 1,
                    !.dry = dry, !.cursor = cursor, !.limit = limit, !.only = only,
                    !.pEndpoints = pEps,
                    !.pc = "rate_check"]

\* fetch, POST with a valid bearer token: the options of the query string and
\* the body are read and doPing is called; a dry run skips the rate check
StartManual(i, dry, cursor, limit, only, pEps) ==
    [IdleInv EXCEPT !.kind = "manual", !.serial = started + 1,
                    !.dry = dry, !.cursor = cursor, !.limit = limit, !.only = only,
                    !.pEndpoints = pEps,
                    !.pc = IF dry THEN "resolve" ELSE "rate_check"]

\* the next invocation to start
FreeSlot(i) == i = started + 1

Post(i, dry, bodyCursor, cursorQ, limit, pEps) ==
    /\ drv.pc = "off"
    /\ FreeSlot(i)
    /\ started < MaxStarts
    /\ inv' = [inv EXCEPT ![i] = StartManual(i, dry, CursorOf(bodyCursor, cursorQ), limit, "all", pEps)]
    /\ started' = started + 1
    /\ UNCHANGED <<env, io, kv, fanouts, drv>>

\* FetchPersist with the dry branch lost: every run goes to last-result
FetchPersistResultOnly(i) ==
    /\ inv[i].pc = "persist"
    /\ kv' = [kv EXCEPT ![RESULT_KEY] = ResultRec(inv[i], "fetch", None, inv[i].res, ResultTtl)]
    /\ inv' = [inv EXCEPT ![i] = [Logged(inv[i], "put", RESULT_KEY, "fetch") EXCEPT
                                    !.pc = "responded", !.http = 200, !.endSerial = started]]
    /\ UNCHANGED <<env, io, started, fanouts, drv>>

\* fetch: if (!dryRun) put xmlrpc:last-result {time, result: res}
\*        else put xmlrpc:last-dry {time, result: res}; then the response
FetchPersist(i) ==
    /\ inv[i].pc = "persist"
    /\ LET key == IF ~inv[i].dry THEN RESULT_KEY ELSE DRY_KEY
           ttl == IF ~inv[i].dry THEN ResultTtl ELSE DryTtl
       IN /\ kv' = [kv EXCEPT ![key] = ResultRec(inv[i], "fetch", None, inv[i].res, ttl)]
          /\ inv' = [inv EXCEPT ![i] = [Logged(inv[i], "put", key, "fetch") EXCEPT
                                          !.pc = "responded", !.http = 200, !.endSerial = started]]
    /\ UNCHANGED <<env, io, started, fanouts, drv>>

----------------------------------------------------------------------------
(* fetch: the whole handler, from the request line to doPing *)

\* env.XMLRPC_PING_SECRET
XMLRPC_PING_SECRET == "s3cret"

\* an Authorization header; None when the request has none
Header(scheme, token) == [t |-> "header", scheme |-> scheme, token |-> token]

\* request bodies: text that is no JSON, the JSON null, a JSON number, and
\* JSON objects with their cursor and endpoints members
Unparseable == [t |-> "text"]
JsonNull == [t |-> "null"]
JsonScalar == [t |-> "scalar"]
Obj(cursor, endpoints) ==
    [t |-> "obj", cursor |-> cursor, endpoints |-> endpoints,
     siteName |-> None, siteUrl |-> None, feedUrl |-> None]
\* a body that describes the site
ObjSite(siteName, siteUrl, feedUrl) ==
    [Obj(None, None) EXCEPT !.siteName = siteName, !.siteUrl = siteUrl, !.feedUrl = feedUrl]
EmptyObj == Obj(None, None)

\* body.cursor, payload.endpoints: undefined on anything but an object that
\* has the member
Member(body, f) == IF body.t = "obj" THEN body[f] ELSE None

\* the query string: dry=1, only (default all), limit (default 0), cursor;
\* verbose is off unless the query string holds verbose=1
Query(dry, only, limit, cursor) ==
    [dry |-> dry, verbose |-> FALSE, only |-> only, limit |-> limit, cursor |-> cursor]
Verbose(q) == [q EXCEPT !.verbose = TRUE]

Req(method, path, auth, body, q) ==
    [method |-> method, path |-> path, auth |-> auth, body |-> body, q |-> q]

\* Gate that lets a request without Authorization header through
GateMissingAuthPasses(method, path, auth) ==
    IF method = "GET" /\ path = "/health" THEN [t |-> "health"]
    ELSE IF method # "POST" THEN [t |-> "reject", status |-> 405]
    ELSE IF auth # None /\ auth # Header("Bearer", XMLRPC_PING_SECRET) THEN [t |-> "reject", status |-> 401]
    ELSE [t |-> "run"]

\* fetch: GET /health is served; any other method than POST is answered 405;
\* a POST whose Authorization is not "Bearer <secret>" is answered 401
Gate(method, path, auth) ==
    IF method = "GET" /\ path = "/health" THEN [t |-> "health"]
    ELSE IF method # "POST" THEN [t |-> "reject", status |-> 405]
    ELSE IF auth = None \/ auth # Header("Bearer", XMLRPC_PING_SECRET) THEN [t |-> "reject", status |-> 401]
    ELSE [t |-> "run"]

\* safeJson without its catch: the text comes back unparsed
SafeJsonNoCatch(body) == body

\* safeJson: try { return await req.json() } catch { return {} }
SafeJson(body) == IF body.t = "text" THEN EmptyObj ELSE body

\* fetch up to its first KV operation: the state of invocation i after the
\* request r has been read
Started(i, r) ==
    LET g == Gate(r.method, r.path, r.auth)
        body == SafeJson(r.body)
        me == [IdleInv EXCEPT !.kind = "manual", !.serial = started + 1, !.req = r]
    IN IF g.t = "reject"
       THEN [me EXCEPT !.pc = "rejected", !.http = g.status, !.endSerial = started + 1]
       ELSE IF body.t \in {"text", "null"}
       THEN [Thrown(me) EXCEPT !.endSerial = started + 1]
       ELSE [StartManual(i, r.q.dry, CursorOf(Member(body, "cursor"), r.q.cursor),
                         r.q.limit, r.q.only, Member(body, "endpoints"))
               EXCEPT !.req = r,
                      !.verbose = r.q.verbose,
                      !.pSite = [f \in DOMAIN NoSite |-> Member(body, f)]]

\* fetch: a request that is not GET /health arrives
Request(i, r) ==
    /\ drv.pc = "off"
    /\ FreeSlot(i)
    /\ started < MaxStarts
    /\ Gate(r.method, r.path, r.auth).t # "health"
    /\ inv' = [inv EXCEPT ![i] = Started(i, r)]
    /\ started' = started + 1
    /\ UNCHANGED <<env, io, kv, fanouts, drv>>

\* Date.now() of a stored record: the invocation that wrote it and the place
\* of the put
Stamp(rec) == [by |-> rec.by, at |-> rec.at]

\* rec?.result?.[f]: undefined when no record is stored or its result has no
\* such member
ResultMember(rec, f) ==
    IF rec = None THEN None
    ELSE IF f \in DOMAIN rec.result THEN rec.result[f] ELSE None

\* rec?.result?.summary as a value of ??: whether the member is there
HasSummary(rec) == rec # None /\ "summary" \in DOMAIN rec.result

\* the query string of GET /health: format and view, the empty text when the
\* parameter is absent (neither is "json", and view || "all" takes both for
\* all), and refresh, None when absent
HealthQuery(format, view, refresh) == [format |-> format, view |-> view, refresh |-> refresh]

\* renderHealthHtml: the rows of the table under a view
ViewRows(summary, view) ==
    LET Shown(r) == IF view = "all" THEN TRUE ELSE IF view = "fail" THEN ~r.ok ELSE r.ok
    IN SelectSeq(summary, Shown)

\* readHealth: the data built of the values stored under the six keys
readHealth(kvs) ==
    LET lastPing == kvs[RL_KEY]
        lastSeen == kvs[LAST_KEY]
        endpoints == kvs[EP_KEY]
        lastResult == kvs[RESULT_KEY]
        lastDry == kvs[DRY_KEY]
        lastReq == kvs[REQUEST_KEY]
        summary == IF HasSummary(lastResult) THEN lastResult.result.summary
                   ELSE IF HasSummary(lastDry) THEN lastDry.result.summary
                   ELSE <<>>
        IsOk(r) == r.ok
        ok == Len(SelectSeq(summary, IsOk))
    IN [site |-> [name |-> Nullish(ResultMember(lastResult, "siteName"), ResultMember(lastDry, "siteName")),
                  url |-> Nullish(ResultMember(lastResult, "siteUrl"), ResultMember(lastDry, "siteUrl")),
                  feed |-> Nullish(ResultMember(lastResult, "feedUrl"), ResultMember(lastDry, "feedUrl"))],
        latestId |-> IF lastResult # None /\ lastResult.latest # None
                     THEN [t |-> "id", v |-> lastResult.latest.id]
                     ELSE lastSeen,
        endpointsCount |-> IF endpoints.t = "list" THEN Len(endpoints.v) ELSE 0,
        lastPingAt |-> IF lastPing # None THEN Stamp(lastPing) ELSE None,
        lastResultAt |-> IF lastResult # None THEN Stamp(lastResult)
                         ELSE IF lastDry # None THEN Stamp(lastDry) ELSE None,
        successes |-> ok,
        failures |-> Len(summary) - ok,
        lastRequestAt |-> IF lastReq # None THEN Stamp(lastReq) ELSE None,
        lastRequestBody |-> IF lastReq # None THEN lastReq.body ELSE None,
        summary |-> summary,
        recentSample |-> JsSlice(summary, 0, 20),
        sampleSource |-> Nullish(lastResult, lastDry)]

\* the invocation that serves GET /health: the six reads of readHealth, then
\* the data as JSON (format=json) or the page of renderHealthHtml
Served(me, h, kvs) ==
    LET read == Logged(Logged(Logged(Logged(Logged(Logged(me,
                   "get", RL_KEY, "readHealth"), "get", LAST_KEY, "readHealth"),
                   "get", EP_KEY, "readHealth"), "get", RESULT_KEY, "readHealth"),
                   "get", DRY_KEY, "readHealth"), "get", REQUEST_KEY, "readHealth")
        data == readHealth(kvs)
        view == IF h.view = "" THEN "all" ELSE h.view
        refresh == JsNumber(h.refresh, 0)
    IN [read EXCEPT !.pc = "served", !.http = 200,
                    !.res = [status |-> "health",
                             format |-> IF h.format = "json" THEN "json" ELSE "html",
                             data |-> data,
                             rows |-> IF h.format = "json" THEN <<>> ELSE ViewRows(data.summary, view),
                             metaRefresh |-> h.format # "json" /\ refresh # NaN /\ refresh.v > 0,
                             lastResult |-> kvs[RESULT_KEY],
                             lastDry |-> kvs[DRY_KEY],
                             endpointsCount |-> data.endpointsCount,
                             locked |-> kvs[RL_KEY] # None]]

\* Health that leaves a trace of the visit under xmlrpc:last-request
HealthLeavesTrace(i, r, h) ==
    /\ drv.pc = "off"
    /\ FreeSlot(i)
    /\ started < MaxStarts
    /\ Gate(r.method, r.path, r.auth).t = "health"
    /\ LET me == [IdleInv EXCEPT !.kind = "health", !.serial = started + 1, !.req = r]
       IN /\ inv' = [inv EXCEPT ![i] =
                       [Logged(Served(me, h, kv), "put", REQUEST_KEY, "fetch")
                          EXCEPT !.endSerial = started + 1]]
          /\ kv' = [kv EXCEPT ![REQUEST_KEY] =
                      [t |-> "request", by |-> started + 1, at |-> "fetch", body |-> r.body]]
    /\ started' = started + 1
    /\ UNCHANGED <<env, io, fanouts, drv>>

\* fetch, GET /health: readHealth asks for the six keys at once and the data
\* or the page of what they hold is served; nothing is written
Health(i, r, h) ==
    /\ drv.pc = "off"
    /\ FreeSlot(i)
    /\ started < MaxStarts
    /\ Gate(r.method, r.path, r.auth).t = "health"
    /\ LET me == [IdleInv EXCEPT !.kind = "health", !.serial = started + 1, !.req = r]
       IN inv' = [inv EXCEPT ![i] = [Served(me, h, kv) EXCEPT !.endSerial = started + 1]]
    /\ started' = started + 1
    /\ UNCHANGED <<env, io, kv, fanouts, drv>>

----------------------------------------------------------------------------
(* scheduled: the cron trigger *)

\* Tick without the try of scheduled: an exception of the detector leaves the
\* handler
TickNoCatch(i, detected) ==
    /\ drv.pc = "off"
    /\ FreeSlot(i)
    /\ started < MaxStarts
    /\ inv' = [inv EXCEPT ![i] =
                 [IdleInv EXCEPT !.kind = "scheduled", !.serial = started + 1,
                                 !.detected = detected,
                                 !.latest = IF detected.t = "id" THEN detected ELSE None,
                                 !.pc = IF detected.t = "id" THEN "sched_seen"
                                        ELSE IF detected.t = "throw" THEN "threw" ELSE "ended",
                                 !.endSerial = IF detected.t = "id" THEN 0 ELSE started + 1]]
    /\ started' = started + 1
    /\ UNCHANGED <<env, io, kv, fanouts, drv>>

\* scheduled: the detector is asked for the latest change id; no id, or a
\* failure caught by the try, ends the invocation
Tick(i, detected) ==
    /\ drv.pc = "off"
    /\ FreeSlot(i)
    /\ started < MaxStarts
    /\ inv' = [inv EXCEPT ![i] =
                 [IdleInv EXCEPT !.kind = "scheduled", !.serial = started + 1,
                                 !.detected = detected,
                                 !.latest = IF detected.t = "id" THEN detected ELSE None,
                                 !.pc = IF detected.t = "id" THEN "sched_seen" ELSE "ended",
                                 !.endSerial = IF detected.t = "id" THEN 0 ELSE started + 1]]
    /\ started' = started + 1
    /\ UNCHANGED <<env, io, kv, fanouts, drv>>

\* SchedSeen without the comparison: the run goes on whatever is stored
SchedSeenNoCompare(i) ==
    /\ inv[i].pc = "sched_seen"
    /\ inv' = [inv EXCEPT ![i] = [Logged(inv[i], "get", LAST_KEY, "scheduled") EXCEPT
                                    !.seen = kv[LAST_KEY], !.pc = "sched_rl"]]
    /\ UNCHANGED <<env, io, kv, started, fanouts, drv>>

\* scheduled: lastSeen = await KV.get(LAST_KEY); if (lastSeen === latest.id) return
SchedSeen(i) ==
    /\ inv[i].pc = "sched_seen"
    /\ LET lastSeen == kv[LAST_KEY]
           me == [Logged(inv[i], "get", LAST_KEY, "scheduled") EXCEPT !.seen = lastSeen]
       IN inv' = [inv EXCEPT ![i] =
                    IF lastSeen # None /\ lastSeen.v = me.latest.id
                    THEN [me EXCEPT !.pc = "ended", !.endSerial = started]
                    ELSE [me EXCEPT !.pc = "sched_rl"]]
    /\ UNCHANGED <<env, io, kv, started, fanouts, drv>>

\* scheduled: rl = await KV.get(RL_KEY); if (rl) return; else doPing(env, {})
SchedRl(i) ==
    /\ inv[i].pc = "sched_rl"
    /\ LET rl == kv[RL_KEY]
           me == Logged(inv[i], "get", RL_KEY, "scheduled")
       IN inv' = [inv EXCEPT ![i] =
                    IF rl # None
                    THEN [me EXCEPT !.pc = "ended", !.endSerial = started]
                    ELSE [me EXCEPT !.pc = "rate_check"]]
    /\ UNCHANGED <<env, io, kv, started, fanouts, drv>>

\* SchedMark with the put left out
SchedMarkSkipped(i) ==
    /\ inv[i].pc = "sched_mark"
    /\ inv' = [inv EXCEPT ![i].pc = "sched_lock"]
    /\ UNCHANGED <<env, io, kv, started, fanouts, drv>>

\* scheduled: await KV.put(LAST_KEY, latest.id)
SchedMark(i) ==
    /\ inv[i].pc = "sched_mark"
    /\ kv' = [kv EXCEPT ![LAST_KEY] = [t |-> "id", v |-> inv[i].latest.id]]
    /\ inv' = [inv EXCEPT ![i] = [Logged(inv[i], "put", LAST_KEY, "scheduled") EXCEPT !.pc = "sched_lock"]]
    /\ UNCHANGED <<env, io, started, fanouts, drv>>

\* scheduled: await KV.put(RL_KEY, now, {expirationTtl: HOUR})
SchedLock(i) ==
    /\ inv[i].pc = "sched_lock"
    /\ kv' = [kv EXCEPT ![RL_KEY] = Marker(inv[i], "scheduled")]
    /\ inv' = [inv EXCEPT ![i] = [Logged(inv[i], "put", RL_KEY, "scheduled") EXCEPT !.pc = "sched_log"]]
    /\ UNCHANGED <<env, io, started, fanouts, drv>>

\* scheduled: await KV.put("xmlrpc:last-result", {time, latest, result})
SchedLog(i) ==
    /\ inv[i].pc = "sched_log"
    /\ kv' = [kv EXCEPT ![RESULT_KEY] = ResultRec(inv[i], "scheduled", inv[i].latest, inv[i].res, ResultTtl)]
    /\ inv' = [inv EXCEPT ![i] = [Logged(inv[i], "put", RESULT_KEY, "scheduled") EXCEPT
                                    !.pc = "ended", !.endSerial = started]]
    /\ UNCHANGED <<env, io, started, fanouts, drv>>

----------------------------------------------------------------------------
(* The KV namespace and the runtime *)

\* the TTL of the rate-limit marker runs out
Expire ==
    /\ kv[RL_KEY] # None
    /\ kv' = [kv EXCEPT ![RL_KEY] = None]
    /\ fanouts' = {}
    /\ UNCHANGED <<env, io, inv, started, drv>>

Next ==
    \/ \E i \in Inv, dry \in BOOLEAN, qc \in RaceQueryCursors : Post(i, dry, None, qc, 0, None)
    \/ \E i \in Inv, detected \in DetectorOutcomes(RaceChangeIds) : Tick(i, detected)
    \/ \E i \in Inv : RateCheck(i)
    \/ \E i \in Inv : Resolve(i)
    \/ \E i \in Inv : Acquire(i)
    \/ \E i \in Inv : Dispatch(i)
    \/ \E i \in Inv : \E idx \in inv[i].inflight : PingDone(i, idx)
    \/ \E i \in Inv : Save(i)
    \/ \E i \in Inv : FetchPersist(i)
    \/ \E i \in Inv : SchedSeen(i)
    \/ \E i \in Inv : SchedRl(i)
    \/ \E i \in Inv : SchedMark(i)
    \/ \E i \in Inv : SchedLock(i)
    \/ \E i \in Inv : SchedLog(i)
    \/ Expire

Spec == Init /\ [][Next]_vars

----------------------------------------------------------------------------
(* One invocation at a time, over the whole range of planner inputs *)

\* values of env.SUBREQ_BUDGET, the ceiling of the clamp included
SoloBudgets == BudgetValues \cup {Num(0), Num(BudgetCeiling + 1)}

SoloInit ==
    /\ env \in {EnvOf(b, c, l) : b \in SoloBudgets, c \in ConcurrencyValues, l \in EnvLists}
    /\ \E stored \in StoredLists : kv = [k \in Keys |-> IF k = EP_KEY THEN stored ELSE None]
    /\ inv = [i \in Inv |-> IdleInv]
    /\ started = 0
    /\ fanouts = {}
    /\ drv = DrvOff
    /\ io = NoCall

Quiet == \A j \in Inv : inv[j].pc = "idle"

SoloNext ==
    \/ \E dry \in BOOLEAN, bc \in BodyCursors, qc \in QueryCursors, limit \in Limits, pEps \in PayloadLists :
          Quiet /\ Post(1, dry, bc, qc, limit, pEps)
    \/ \E detected \in DetectorOutcomes(ChangeIds) : Quiet /\ Tick(1, detected)
    \/ RateCheck(1)
    \/ Resolve(1)
    \/ Acquire(1)
    \/ Dispatch(1)
    \/ \E idx \in inv[1].inflight : PingDone(1, idx)
    \/ \E idx \in inv[1].inflight : PingTimeout(1, idx)
    \/ Save(1)
    \/ FetchPersist(1)
    \/ SchedSeen(1)
    \/ SchedRl(1)
    \/ SchedMark(1)
    \/ SchedLock(1)
    \/ SchedLog(1)

SoloSpec == SoloInit /\ [][SoloNext]_vars

----------------------------------------------------------------------------
(* The fan-out of one manual run, over concurrency settings, endpoint      *)
(* fates and completion orders                                             *)

\* env.PING_CONCURRENCY: unset, integers on both sides of the bounds, and
\* text that is no number
PoolConcurrency == {None, Num(-2), Num(1), Num(2), Num(3), Num(7), Num(12), NaN}
PoolBudgets == {None, Num(3)}
\* the lists stored under xmlrpc:endpoints in the fan-out runs; with none
\* stored the list of env.PING_ENDPOINTS is pinged
PoolLists == {None, List(<<"a", "b", "a", "c">>), List(<<"d", "e", "f">>)}
OnlyValues == {"all", "fail", "success"}

\* a POST with the right token and body {}
TriggerReq(dry, only, limit, cursor) ==
    Req("POST", "/", Header("Bearer", XMLRPC_PING_SECRET), EmptyObj, Query(dry, only, limit, cursor))

PoolInit ==
    /\ env \in {EnvOf(b, c, l) : b \in PoolBudgets, c \in PoolConcurrency, l \in EnvLists}
    /\ \E stored \in PoolLists : kv = [k \in Keys |-> IF k = EP_KEY THEN stored ELSE None]
    /\ inv = [i \in Inv |-> IdleInv]
    /\ started = 0
    /\ fanouts = {}
    /\ drv = DrvOff
    /\ io = NoCall

PoolNext ==
    \/ \E dry \in BOOLEAN, only \in OnlyValues : Quiet /\ Request(1, TriggerReq(dry, only, 0, None))
    \/ RateCheck(1)
    \/ Resolve(1)
    \/ Acquire(1)
    \/ Dispatch(1)
    \/ \E idx \in inv[1].inflight : PingDone(1, idx)
    \/ \E idx \in inv[1].inflight : PingTimeout(1, idx)
    \/ Save(1)
    \/ FetchPersist(1)

PoolSpec == PoolInit /\ [][PoolNext]_vars

\* the fan-out runs with the default budget, and the default concurrency or 2
PoolFairInit ==
    /\ env \in {EnvOf(None, c, l) : c \in {None, Num(2)}, l \in EnvLists}
    /\ \E stored \in PoolLists : kv = [k \in Keys |-> IF k = EP_KEY THEN stored ELSE None]
    /\ inv = [i \in Inv |-> IdleInv]
    /\ started = 0
    /\ fanouts = {}
    /\ drv = DrvOff
    /\ io = NoCall

\* every KV operation that was awaited completes, and every timer that was
\* set fires; nothing makes an endpoint answer
PoolFairSpec ==
    /\ PoolFairInit
    /\ [][PoolNext]_vars
    /\ WF_vars(RateCheck(1))
    /\ WF_vars(Resolve(1))
    /\ WF_vars(Acquire(1))
    /\ WF_vars(Dispatch(1))
    /\ WF_vars(\E idx \in inv[1].inflight : PingTimeout(1, idx))
    /\ WF_vars(Save(1))
    /\ WF_vars(FetchPersist(1))

----------------------------------------------------------------------------
(* One request of any shape, over well-formed and malformed settings *)

\* a value that is no JSON, and JSON that is no array (an object)
Malformed == [t |-> "badjson"]
NotAList == [t |-> "json"]

\* env.PING_ENDPOINTS and the value stored under xmlrpc:endpoints
EdgeEnvLists == {None, List(<<"b", "a">>), Malformed, NotAList}
EdgeStored == {None, List(<<"a", "b", "c">>), List(<<>>), Malformed, NotAList}

EdgeMethods == {"POST", "GET", "PUT"}
EdgePaths == {"/", "/health"}
EdgeAuths == {None, Header("Bearer", XMLRPC_PING_SECRET), Header("Bearer", "guess"),
              Header("Basic", XMLRPC_PING_SECRET)}
EdgeBodies == {Unparseable, JsonNull, JsonScalar, EmptyObj, Obj(Num(1), None),
               Obj(None, List(<<"f">>)), Obj(None, List(<<>>)), Obj(None, NotAList)}
EdgeQueries == {Query(dry, "all", 0, c) : dry \in BOOLEAN, c \in {None, Num(2)}}
EdgeRequests ==
    {Req(m, p, a, b, q) : m \in EdgeMethods, p \in EdgePaths, a \in EdgeAuths,
                          b \in EdgeBodies, q \in EdgeQueries}

\* the query string of GET /health: any format, view and refresh
HealthQueries ==
    {HealthQuery(f, v, n) : f \in {"", "json", "csv"}, v \in {"", "all", "fail", "ok", "x"},
                            n \in {None, Num(60), NaN}}

EdgeInit ==
    /\ env \in {EnvOf(Num(2), None, l) : l \in EdgeEnvLists}
    /\ \E stored \in EdgeStored : kv = [k \in Keys |-> IF k = EP_KEY THEN stored ELSE None]
    /\ inv = [i \in Inv |-> IdleInv]
    /\ started = 0
    /\ fanouts = {}
    /\ drv = DrvOff
    /\ io = NoCall

EdgeNext ==
    \/ \E r \in EdgeRequests : Quiet /\ Request(1, r)
    \/ \E r \in EdgeRequests, h \in {HealthQuery("", "", None), HealthQuery("json", "fail", Num(60))} :
          Quiet /\ Health(1, r, h)
    \/ RateCheck(1)
    \/ Resolve(1)
    \/ Acquire(1)
    \/ Dispatch(1)
    \/ \E idx \in inv[1].inflight : PingDone(1, idx)
    \/ \E idx \in inv[1].inflight : PingTimeout(1, idx)
    \/ Save(1)
    \/ FetchPersist(1)

EdgeSpec == EdgeInit /\ [][EdgeNext]_vars

----------------------------------------------------------------------------
(* Scheduled ticks one after the other, over every answer of the detector *)

\* the list stored under xmlrpc:endpoints in the scheduled runs
CronLists == {None, List(<<"a", "b", "f">>)}
CronBudgets == {None, Num(2)}

CronInit ==
    /\ env \in {EnvOf(b, Num(1), l) : b \in CronBudgets, l \in EnvLists}
    /\ \E stored \in CronLists, seen \in {None, [t |-> "id", v |-> "c1"]}, rl \in {None, EarlierMarker} :
          /\ kv = [k \in Keys |-> IF k = EP_KEY THEN stored
                                  ELSE IF k = LAST_KEY THEN seen
                                  ELSE IF k = RL_KEY THEN rl ELSE None]
          /\ fanouts = IF rl = None THEN {} ELSE {0}
    /\ inv = [i \in Inv |-> IdleInv]
    /\ started = 0
    /\ drv = DrvOff
    /\ io = NoCall

\* no invocation is under way
Resting == \A j \in Inv : inv[j].pc \in {"idle", "ended"}

CronNext ==
    \/ \E i \in Inv, a \in DetectorAnswers(ChangeIds) : Resting /\ Tick(i, Detect(a))
    \/ \E i \in Inv : SchedSeen(i)
    \/ \E i \in Inv : SchedRl(i)
    \/ \E i \in Inv : RateCheck(i)
    \/ \E i \in Inv : Resolve(i)
    \/ \E i \in Inv : Acquire(i)
    \/ \E i \in Inv : Dispatch(i)
    \/ \E i \in Inv : \E idx \in inv[i].inflight : PingDone(i, idx)
    \/ \E i \in Inv : Save(i)
    \/ \E i \in Inv : SchedMark(i)
    \/ \E i \in Inv : SchedLock(i)
    \/ \E i \in Inv : SchedLog(i)
    \/ Expire

CronSpec == CronInit /\ [][CronNext]_vars

----------------------------------------------------------------------------
(* The cursor loop of the first-run guide: POST with cursor=$CURSOR, read  *)
(* .nextCursor of the answer, stop when it is empty, else go on from it    *)

\* the lists stored under xmlrpc:endpoints in the loop runs
LoopLists == {None, List(<<"a">>), List(<<"a", "b", "c">>), List(<<"c", "a", "b", "a">>)}
LoopBudgets == BudgetValues \cup {Num(3)}

LoopInit ==
    /\ env \in {EnvOf(b, c, l) : b \in LoopBudgets, c \in ConcurrencyValues, l \in EnvLists}
    /\ \E stored \in LoopLists : kv = [k \in Keys |-> IF k = EP_KEY THEN stored ELSE None]
    /\ inv = [i \in Inv |-> IdleInv]
    /\ started = 0
    /\ fanouts = {}
    /\ io = NoCall
    /\ \E dry \in BOOLEAN, limit \in Limits, pEps \in PayloadLists :
          drv = [DrvOff EXCEPT !.pc = "ready", !.dry = dry, !.limit = limit, !.pEndpoints = pEps]

\* RESP=$(curl -X POST "$URL?cursor=$CURSOR" ...)
DrvCall ==
    /\ drv.pc = "ready"
    /\ inv[1].pc = "idle"
    /\ inv' = [inv EXCEPT ![1] =
                 StartManual(1, drv.dry, CursorOf(None, Num(drv.cursor)), drv.limit, "all", drv.pEndpoints)]
    /\ started' = started + 1
    /\ drv' = [drv EXCEPT !.pc = "waiting", !.calls = @ + 1]
    /\ UNCHANGED <<env, io, kv, fanouts>>

\* the indices lo, lo + 1, ..., hi - 1 in order
Range(lo, hi) == [k \in 1..(hi - lo) |-> lo + k - 1]

\* the list positions an invocation sent a ping request to, in order of issue
PingedIdx(log) ==
    LET IsPing(e) == e.op = "ping"
        pings == SelectSeq(log, IsPing)
    IN [k \in 1..Len(pings) |-> pings[k].idx]

\* NEXT=$(echo "$RESP" | jq -r '.nextCursor // empty'); [ -z "$NEXT" ] && break; CURSOR=$NEXT
DrvCollect ==
    /\ drv.pc = "waiting"
    /\ inv[1].pc = "responded"
    /\ LET res == inv[1].res
           done == res.status = "done"
           more == done /\ res.nextCursor # None
       IN drv' = [drv EXCEPT
                    !.pc = IF more THEN "ready" ELSE "finished",
                    !.cursor = IF more THEN res.nextCursor.v ELSE @,
                    !.last = res.status,
                    !.planned = IF done THEN @ \o Range(res.totals.batchStart, res.totals.batchEnd) ELSE @,
                    !.slices = IF done THEN @ \o inv[1].plan.batch ELSE @,
                    !.pinged = @ \o PingedIdx(inv[1].log)]
    /\ inv' = [inv EXCEPT ![1] = IdleInv]
    /\ UNCHANGED <<env, io, kv, started, fanouts>>

LoopNext ==
    \/ DrvCall
    \/ DrvCollect
    \/ RateCheck(1)
    \/ Resolve(1)
    \/ Acquire(1)
    \/ Dispatch(1)
    \/ \E idx \in inv[1].inflight : PingDone(1, idx)
    \/ \E idx \in inv[1].inflight : PingTimeout(1, idx)
    \/ Save(1)
    \/ FetchPersist(1)
    \/ Expire

LoopSpec == LoopInit /\ [][LoopNext]_vars

----------------------------------------------------------------------------
(* One manual run, over the site members of the body and of the environment *)

\* what SITE_NAME, SITE_URL and FEED_URL are set to, and what the members
\* siteName, siteUrl and feedUrl of the body are: absent, or a text
EnvNames == {None, Str(<<"E", "&">>)}
EnvUrls == {None, Str(<<"e">>)}
EnvFeeds == {None, Str(<<>>), Str(<<"e", "/", "f">>)}
BodyNames == {None, Str(<<"B">>)}
BodyUrls == {None, Str(<<"b">>)}
BodyFeeds == {None, Str(<<>>), Str(<<"b", "/", "f", "<">>)}

SiteInit ==
    /\ env \in {[EnvOf(None, None, None) EXCEPT !.SITE_NAME = n, !.SITE_URL = u, !.FEED_URL = f] :
                   n \in EnvNames, u \in EnvUrls, f \in EnvFeeds}
    /\ kv = [k \in Keys |-> IF k = EP_KEY THEN List(<<"a", "b">>) ELSE None]
    /\ inv = [i \in Inv |-> IdleInv]
    /\ started = 0
    /\ fanouts = {}
    /\ drv = DrvOff
    /\ io = NoCall

SiteNext ==
    \/ \E dry \in BOOLEAN, n \in BodyNames, u \in BodyUrls, f \in BodyFeeds :
          Quiet /\ Request(1, Req("POST", "/", Header("Bearer", XMLRPC_PING_SECRET),
                                  ObjSite(n, u, f), Query(dry, "all", 0, None)))
    \/ RateCheck(1)
    \/ Resolve(1)
    \/ Acquire(1)
    \/ Dispatch(1)
    \/ \E idx \in inv[1].inflight : PingDone(1, idx)
    \/ Save(1)
    \/ FetchPersist(1)

SiteSpec == SiteInit /\ [][SiteNext]_vars

----------------------------------------------------------------------------
(* One manual run, over what SUBREQ_BUDGET may be set to *)

\* env.SUBREQ_BUDGET: unset, numbers below, at and above the ends of the
\* clamp, and text that is no number
BudgetSettings ==
    {None, Num(-3), Num(0), Num(1), Num(2), Num(BudgetCeiling), Num(BudgetCeiling + 1), NaN}
BudgetCursors == {None, Num(1), Num(4)}

BudgetInit ==
    /\ env \in {EnvOf(b, None, l) : b \in BudgetSettings, l \in EnvLists}
    /\ \E stored \in StoredLists : kv = [k \in Keys |-> IF k = EP_KEY THEN stored ELSE None]
    /\ inv = [i \in Inv |-> IdleInv]
    /\ started = 0
    /\ fanouts = {}
    /\ drv = DrvOff
    /\ io = NoCall

BudgetNext ==
    \/ \E dry \in BOOLEAN, c \in BudgetCursors : Quiet /\ Request(1, TriggerReq(dry, "all", 0, c))
    \/ RateCheck(1)
    \/ Resolve(1)
    \/ Acquire(1)
    \/ Dispatch(1)
    \/ \E idx \in inv[1].inflight : PingDone(1, idx)
    \/ \E idx \in inv[1].inflight : PingTimeout(1, idx)
    \/ Save(1)
    \/ FetchPersist(1)

BudgetSpec == BudgetInit /\ [][BudgetNext]_vars

----------------------------------------------------------------------------
(* Calls of xmlRpc and escapeXml by themselves, over texts that hold every *)
(* character escapeXml looks for                                          *)

MaxText == 2
XmlChars == {"&", "<", ">", "\"", "'", "a", ";"}
\* the texts escapeXml is called with
EscTexts ==
    UNION {[1..n -> XmlChars] : n \in 0..MaxText}
       \cup {AMP, LT, GT, QUOT, APOS, <<"<">> \o AMP \o <<"'">>, <<"a">> \o LT \o <<"&", "&">>}
\* the parameters xmlRpc is called with, two or three of them as doPing does,
\* and none or one
ParamTexts == {<<>>, <<"a">>, <<"&">>, <<"<", "a", ">">>, AMP, <<"\"", "'">>}
ParamLists == UNION {[1..n -> ParamTexts] : n \in 0..3}
Methods == {"weblogUpdates.ping", "weblogUpdates.extendedPing"}

\* every variable but io as it is before the first invocation
NoRun ==
    /\ env = EnvOf(None, None, None)
    /\ kv = [k \in Keys |-> None]
    /\ inv = [i \in Inv |-> IdleInv]
    /\ started = 0
    /\ fanouts = {}
    /\ drv = DrvOff

Call(fn, arg) == [pc |-> "call", fn |-> fn, arg |-> arg, out |-> <<>>]

XmlInit ==
    /\ NoRun
    /\ io \in {Call("escapeXml", s) : s \in EscTexts}
          \cup {Call("xmlRpc", [method |-> m, params |-> ps]) : m \in Methods, ps \in ParamLists}

CallEscapeXml ==
    /\ io.pc = "call" /\ io.fn = "escapeXml"
    /\ io' = [io EXCEPT !.pc = "done", !.out = escapeXml(io.arg)]
    /\ UNCHANGED <<env, kv, inv, started, fanouts, drv>>

CallXmlRpc ==
    /\ io.pc = "call" /\ io.fn = "xmlRpc"
    /\ io' = [io EXCEPT !.pc = "done", !.out = xmlRpc(io.arg.method, io.arg.params)]
    /\ UNCHANGED <<env, kv, inv, started, fanouts, drv>>

XmlNext == CallEscapeXml \/ CallXmlRpc

XmlSpec == XmlInit /\ [][XmlNext]_vars

----------------------------------------------------------------------------
(* The CSV export: toCsv, and calls of it over rows whose texts hold line  *)
(* breaks, quotes and commas                                               *)

Bool(b) == [t |-> "bool", v |-> b]

RECURSIVE Digits(_)
\* String(n) of an integer that is not negative
Digits(n) ==
    LET d == <<"0", "1", "2", "3", "4", "5", "6", "7", "8", "9">>[(n % 10) + 1]
    IN IF n < 10 THEN <<d>> ELSE Digits(n \div 10) \o <<d>>

\* String(v) of a text, a boolean or a number
JsString(v) ==
    CASE v.t = "str" -> v.v
      [] v.t = "bool" -> IF v.v THEN <<"t", "r", "u", "e">> ELSE <<"f", "a", "l", "s", "e">>
      [] v.t = "num" -> Digits(v.v)

RECURSIVE BreaksToSpaces(_)
\* replace(/\r?\n/g, " "): from left to right, a CR LF pair or a LF becomes
\* one space; a CR that no LF follows is no match
BreaksToSpaces(s) ==
    IF s = <<>> THEN <<>>
    ELSE IF Len(s) >= 2 /\ s[1] = "\r" /\ s[2] = "\n" THEN <<" ">> \o BreaksToSpaces(SubSeq(s, 3, Len(s)))
    ELSE IF s[1] = "\n" THEN <<" ">> \o BreaksToSpaces(Tail(s))
    ELSE <<s[1]>> \o BreaksToSpaces(Tail(s))

\* esc that leaves the line breaks of a value where they are
escKeepBreaks(v) ==
    <<"\"">> \o ReplaceAll(JsString(Nullish(v, Str(<<>>))), "\"", <<"\"", "\"">>) \o <<"\"">>

\* toCsv, esc: String(s ?? ""), line breaks to spaces, quotes doubled, the
\* whole in quotes
esc(v) ==
    <<"\"">> \o ReplaceAll(BreaksToSpaces(JsString(Nullish(v, Str(<<>>)))), "\"", <<"\"", "\"">>)
       \o <<"\"">>

RECURSIVE JoinWith(_, _)
\* Array.prototype.join(sep)
JoinWith(parts, sep) ==
    IF parts = <<>> THEN <<>>
    ELSE IF Len(parts) = 1 THEN parts[1]
    ELSE parts[1] \o sep \o JoinWith(Tail(parts), sep)

\* the header line, kept as one token
CSV_HEADER == "url,ok,status,ms,error,bodySnippet"

toCsv(rows) ==
    JoinWith(<<<<CSV_HEADER>>>> \o
             [k \in 1..Len(rows) |->
                 JoinWith(<<esc(rows[k].url), esc(rows[k].ok), esc(rows[k].status),
                            esc(Nullish(rows[k].ms, Str(<<>>))),
                            esc(Nullish(rows[k].error, Str(<<>>))),
                            esc(Nullish(rows[k].bodySnippet, Str(<<>>)))>>, <<",">>)],
             <<"\r", "\n">>)

MaxRows == 2
\* the error and body texts of an outcome: absent, or a text
CsvTexts ==
    {None} \cup
    {Str(s) : s \in {<<>>, <<"a">>, <<"\n">>, <<"\r">>, <<"\"">>, <<",">>, <<"\r", "\n">>,
                     <<"\n", "\r">>, <<"\r", "\r", "\n">>, <<"\"", "\"">>,
                     <<"a", "\n", "\n", "b">>, <<"a", "\r", "\n", "\"", "\n", "\r">>}}
\* outcomes as pingWithTimeout makes them: ms, error and bodySnippet may be
\* absent
CsvRow(ok, status, ms, error, snippet) ==
    [url |-> Str(<<"u", ",", "\"">>), ok |-> Bool(ok), status |-> Num(status), ms |-> ms,
     error |-> error, bodySnippet |-> snippet]
CsvRows ==
    {CsvRow(FALSE, 0, None, e, None) : e \in CsvTexts}
       \cup {CsvRow(TRUE, 200, Num(12), None, b) : b \in {Str(<<"o", "k", "\n">>), Str(<<"\"">>)}}
       \cup {CsvRow(FALSE, 500, Num(3), None, None)}

CsvInit ==
    /\ NoRun
    /\ io \in {Call("toCsv", rows) : rows \in UNION {[1..n -> CsvRows] : n \in 0..MaxRows}}

CallToCsv ==
    /\ io.pc = "call" /\ io.fn = "toCsv"
    /\ io' = [io EXCEPT !.pc = "done", !.out = toCsv(io.arg)]
    /\ UNCHANGED <<env, kv, inv, started, fanouts, drv>>

CsvNext == CallToCsv

CsvSpec == CsvInit /\ [][CsvNext]_vars

----------------------------------------------------------------------------
(* One manual run over the options of the query string, under well-formed *)
(* settings                                                               *)

\* dry and real runs under each only filter, with and without verbose=1
VerboseQueries ==
    {Query(dry, only, 0, None) : dry \in BOOLEAN, only \in {"all", "fail", "success"}}
        \cup {Verbose(Query(dry, only, 0, None)) : dry \in BOOLEAN, only \in {"all", "fail", "success"}}

VerboseInit ==
    /\ env = EnvOf(Num(4), None, List(<<"b", "a", "e", "d">>))
    /\ kv = [k \in Keys |-> None]
    /\ inv = [i \in Inv |-> IdleInv]
    /\ started = 0
    /\ fanouts = {}
    /\ drv = DrvOff
    /\ io = NoCall

VerboseNext ==
    \/ \E q \in VerboseQueries :
          Quiet /\ Request(1, Req("POST", "/", Header("Bearer", XMLRPC_PING_SECRET), EmptyObj, q))
    \/ RateCheck(1)
    \/ Resolve(1)
    \/ Acquire(1)
    \/ Dispatch(1)
    \/ \E idx \in inv[1].inflight : PingDone(1, idx)
    \/ \E idx \in inv[1].inflight : PingTimeout(1, idx)
    \/ Save(1)
    \/ FetchPersist(1)

VerboseSpec == VerboseInit /\ [][VerboseNext]_vars

----------------------------------------------------------------------------
(* Manual runs and visits of /health, one after the other *)

\* a manual run that ended before the first modelled invocation: over the
\* list [b, a], describing its site in the body, answered done
EarlierRun(dry, only, site) ==
    [IdleInv EXCEPT !.kind = "manual", !.dry = dry, !.only = only,
                    !.endpoints = <<"b", "a">>,
                    !.plan = Plan(<<"b", "a">>, 2, 0),
                    !.rpc = Rpc(Site(site, env)),
                    !.summary = <<PingOutcome("b"), PingOutcome("a")>>]

\* what fetch stored of that run: a real run under xmlrpc:last-result, a dry
\* run showing its failures under xmlrpc:last-dry
EarlierResult ==
    LET me == EarlierRun(FALSE, "all", NoSite)
    IN ResultRec(me, "fetch", None, Report(me), ResultTtl)
EarlierDry ==
    LET me == EarlierRun(TRUE, "fail", ObjSite(Str(<<"D">>), None, Str(<<"d", "/", "f">>)))
    IN ResultRec(me, "fetch", None, Report(me), DryTtl)

\* no invocation is under way
Served1 == \A j \in Inv : inv[j].pc \in {"idle", "responded", "served"}

\* the manual triggers and the visits of the health page
HealthPosts ==
    {Req("POST", "/", Header("Bearer", XMLRPC_PING_SECRET), b, Query(dry, only, 0, None)) :
        b \in {EmptyObj, ObjSite(Str(<<"B">>), None, Str(<<"b", "/", "f">>))},
        dry \in BOOLEAN, only \in {"all", "fail"}}
HealthGets == {Req("GET", "/health", None, EmptyObj, Query(FALSE, "all", 0, None))}

\* the store holds what earlier runs left: a real run leaves its result for a
\* week and its marker for an hour, a dry run its result for a day
HealthInit ==
    /\ env = EnvOf(Num(2), None, List(<<"b", "a">>))
    /\ \E result \in {None, EarlierResult}, dry \in {None, EarlierDry},
          rl \in {None, EarlierMarker} :
          /\ rl # None => result # None
          /\ kv = [k \in Keys |-> CASE k = RESULT_KEY -> result
                                    [] k = DRY_KEY -> dry
                                    [] k = RL_KEY -> rl
                                    [] OTHER -> None]
    /\ inv = [i \in Inv |-> IdleInv]
    /\ started = 0
    /\ fanouts = {}
    /\ drv = DrvOff
    /\ io = NoCall

HealthNext ==
    \/ \E i \in Inv, r \in HealthPosts : Served1 /\ Request(i, r)
    \/ \E i \in Inv, r \in HealthGets, h \in HealthQueries : Served1 /\ Health(i, r, h)
    \/ \E i \in Inv : RateCheck(i)
    \/ \E i \in Inv : Resolve(i)
    \/ \E i \in Inv : Acquire(i)
    \/ \E i \in Inv : Dispatch(i)
    \/ \E i \in Inv : \E idx \in inv[i].inflight : PingDone(i, idx)
    \/ \E i \in Inv : Save(i)
    \/ \E i \in Inv : FetchPersist(i)

HealthSpec == HealthInit /\ [][HealthNext]_vars

----------------------------------------------------------------------------
(* Properties: the rate-limit gate and the result records *)

IsReal(i) == inv[i].kind \in {"manual", "scheduled"} /\ ~inv[i].dry
IsManual(i) == inv[i].kind = "manual"
Skipped == [status |-> "skipped", reason |-> "rate-limited (<=1/hour)"]

\* the operations of an invocation made inside doPing
DoPingLog(i) == LET InDoPing(e) == e.at = "doPing" IN SelectSeq(inv[i].log, InDoPing)
HasEvent(i, op, k) == \E n \in 1..Len(inv[i].log) : inv[i].log[n].op = op /\ inv[i].log[n].k = k
Pinged(i) == \E n \in 1..Len(inv[i].log) : inv[i].log[n].op = "ping"

\* C1: while a rate-limit marker is stored, at most one real fan-out has
\* issued ping requests since it was first written, in every interleaving.
C1_AtMostOneRealFanout == Cardinality(fanouts) <= 1

\* C2: a real run of doPing that reads a present marker has the skipped
\* report and has done nothing else in doPing: no read of the endpoint list,
\* no write of the marker, no ping request.
C2_LockedRunReturnsAtOnce ==
    \A i \in Inv : (IsReal(i) /\ inv[i].rl # None) =>
        /\ inv[i].res = Skipped
        /\ inv[i].pc \notin {"resolve", "acquire", "dispatch", "pool", "save"}
        /\ DoPingLog(i) = <<Ev("get", RL_KEY, "doPing", -1)>>

C2_Witness ==
    \E i \in Inv : IsReal(i) /\ IsManual(i) /\ inv[i].rl # None /\ inv[i].pc = "responded"

\* C3: in a real run every ping request comes after the run's own write of
\* the rate-limit marker (TTL one hour); none is in flight before it.
C3_MarkerBeforeFirstPing ==
    \A i \in Inv : IsReal(i) =>
        /\ \A n \in 1..Len(inv[i].log) : inv[i].log[n].op = "ping" =>
              \E m \in 1..(n - 1) : inv[i].log[m] = Ev("put", RL_KEY, "doPing", -1)
        /\ inv[i].inflight # {} => HasEvent(i, "put", RL_KEY)
        /\ kv[RL_KEY] # None => kv[RL_KEY].ttl = HOUR

C3_Witness ==
    \E i \in Inv : IsReal(i) /\ inv[i].pc = "pool" /\ inv[i].inflight # {} /\ Pinged(i)

\* C4: when a manual real run has answered done and a second manual real
\* call starts after that answer while the first call's marker is still
\* stored, the second call answers skipped and xmlrpc:last-result is still
\* the record the first call left.
C4_SecondRealCallKeepsLastResult ==
    \A j \in Inv, i \in Inv :
        ( /\ IsManual(j) /\ IsReal(j) /\ inv[j].pc = "responded" /\ inv[j].res.status = "done"
          /\ kv[RL_KEY] = Marker(inv[j], "doPing")
          /\ IsManual(i) /\ IsReal(i) /\ inv[i].pc = "responded"
          /\ inv[i].serial > inv[j].endSerial )
        => /\ inv[i].res.status = "skipped"
           /\ kv[RESULT_KEY] = ResultRec(inv[j], "fetch", None, inv[j].res, ResultTtl)

\* C5: no step of a dry run reads or changes the rate-limit marker, a dry
\* run is never skipped, and when it answers its report is done and
\* xmlrpc:last-dry holds that report, whether or not the marker is stored.
C5_DryRunBypassesLock ==
    [][\A i \in Inv :
          (IsManual(i) /\ inv[i].dry /\ inv'[i] # inv[i] /\ inv'[i].kind = "manual") =>
             /\ kv'[RL_KEY] = kv[RL_KEY]
             /\ ~HasEvent(i, "get", RL_KEY)
             /\ inv'[i].pc # "rate_check"
             /\ inv'[i].res # Skipped
             /\ inv'[i].pc = "responded" =>
                   /\ inv'[i].res.status = "done"
                   /\ kv'[DRY_KEY] = ResultRec(inv[i], "fetch", None, inv[i].res, DryTtl)]_vars

\* two dry runs in a row have answered done under a stored marker, and the
\* snapshot is the second one's
C5_Witness ==
    \E i \in Inv, j \in Inv :
        /\ i # j /\ IsManual(i) /\ IsManual(j) /\ inv[i].dry /\ inv[j].dry
        /\ inv[i].pc = "responded" /\ inv[j].pc = "responded"
        /\ inv[j].serial > inv[i].endSerial
        /\ inv[i].res.status = "done" /\ inv[j].res.status = "done"
        /\ kv[RL_KEY] # None
        /\ kv[DRY_KEY] # None /\ kv[DRY_KEY].by = inv[j].serial

----------------------------------------------------------------------------
(* Properties: the batch planner and the cursor loop *)

\* the list the loop's invocations resolve: stored, else payload, else env,
\* cut to the first limit entries when limit > 0
LoopRaw ==
    IF kv[EP_KEY] # None /\ Len(kv[EP_KEY].v) > 0 THEN kv[EP_KEY].v
    ELSE IF drv.pEndpoints # None THEN drv.pEndpoints.v
    ELSE env.PING_ENDPOINTS.v
LoopLen ==
    IF drv.limit > 0 /\ drv.limit < Len(LoopRaw) THEN drv.limit ELSE Len(LoopRaw)
LoopList == [k \in 1..LoopLen |-> LoopRaw[k]]
EffectiveBudget == SUBREQ_BUDGET(env).v
CeilDiv(n, b) == (n + b - 1) \div b

\* C7: for a non-empty unchanging list of length n and budget B, the plans
\* of the loop that starts at cursor 0 and follows nextCursor cover the
\* indices 0, 1, ... in list order without repeating or skipping one, and
\* when nextCursor = null is reached every index is covered and exactly
\* ceil(n / B) invocations were made (one when B >= n, its slice the list).
C7_CursorLoopCoversList ==
    (drv.pc # "off" /\ LoopLen > 0) =>
        /\ drv.planned = Range(0, Len(drv.planned))
        /\ Len(drv.planned) <= LoopLen
        /\ drv.slices = [k \in 1..Len(drv.planned) |-> LoopList[k]]
        /\ (drv.pc = "finished" /\ drv.last = "done") =>
              /\ drv.planned = Range(0, LoopLen)
              /\ drv.calls = CeilDiv(LoopLen, EffectiveBudget)
              /\ EffectiveBudget >= LoopLen => (drv.calls = 1 /\ drv.slices = LoopList)

\* a loop of several done calls has reached nextCursor = null
C7_Witness ==
    /\ drv.pc = "finished" /\ drv.last = "done"
    /\ drv.calls >= 2 /\ EffectiveBudget >= 2 /\ LoopLen > EffectiveBudget
    /\ drv.limit = 0

\* C8: when the cursor loop has ended, every endpoint of the unchanging
\* list has been sent a ping request, in real runs as well as in dry runs.
C8_LoopPingsEveryEndpoint ==
    drv.pc = "finished" => {drv.pinged[k] : k \in 1..Len(drv.pinged)} = 0..(LoopLen - 1)

\* C9: in every done report nextCursor is non-null iff batchEnd < total,
\* total being the length of the list cut by limit, and a non-null
\* nextCursor equals batchEnd.
C9_NextCursorIffMore ==
    \A i \in Inv : (inv[i].res # None /\ inv[i].res.status = "done") =>
        LET r == inv[i].res
            raw == ResolveEndpoints(kv[EP_KEY], inv[i].pEndpoints, env.PING_ENDPOINTS)
        IN /\ r.totals.total = IF inv[i].limit > 0 /\ inv[i].limit < Len(raw) THEN inv[i].limit ELSE Len(raw)
           /\ r.nextCursor # None <=> r.totals.batchEnd < r.totals.total
           /\ r.nextCursor # None => r.nextCursor.v = r.totals.batchEnd

\* a done report has a next cursor although the limit cut the stored list
C9_Witness ==
    \E i \in Inv :
        /\ inv[i].pc = "responded" /\ inv[i].res.status = "done"
        /\ kv[EP_KEY] # None /\ inv[i].limit > 0 /\ inv[i].limit < Len(kv[EP_KEY].v)
        /\ inv[i].res.nextCursor # None
        /\ inv[i].res.totals.batchEnd < inv[i].limit

\* C10: once an invocation has planned, batchStart = max(0, cursor),
\* batchEnd = min(len, batchStart + B) and the batch is endpoints[batchStart
\* .. batchEnd) in list order; the ping requests go to exactly these
\* positions; a negative cursor gives the plan of cursor 0.
C10_BatchIsContiguousSlice ==
    \A i \in Inv : HasEvent(i, "get", EP_KEY) =>
        LET eps == inv[i].endpoints
            c == inv[i].cursor
            b == inv[i].plan
            bs == IF c > 0 THEN c ELSE 0
            be == IF bs + EffectiveBudget < Len(eps) THEN bs + EffectiveBudget ELSE Len(eps)
            size == IF be > bs THEN be - bs ELSE 0
        IN /\ b.start = bs
           /\ b.end = be
           /\ b.batch = [k \in 1..size |-> eps[bs + k]]
           /\ c < 0 => b.start = 0
           /\ \A n \in 1..Len(inv[i].log) : inv[i].log[n].op = "ping" =>
                 /\ inv[i].log[n].idx \in bs..(be - 1)
                 /\ inv[i].log[n].k = eps[inv[i].log[n].idx + 1]
           /\ (inv[i].res # None /\ inv[i].res.status = "done") =>
                 PingedIdx(inv[i].log) = Range(bs, bs + size)

\* a run with a negative cursor has pinged a proper prefix of its list
C10_Witness ==
    \E i \in Inv :
        /\ inv[i].pc = "responded" /\ inv[i].res.status = "done"
        /\ inv[i].cursor < 0
        /\ Len(inv[i].plan.batch) > 0 /\ Len(inv[i].plan.batch) < Len(inv[i].endpoints)
        /\ Len(PingedIdx(inv[i].log)) = Len(inv[i].plan.batch)

----------------------------------------------------------------------------
(* Properties: the fan-out *)

\* a manual run that has answered with the report of a fan-out
Done(i) == IsManual(i) /\ inv[i].pc = "responded" /\ inv[i].res.status = "done"
\* how often url u stands in a sequence of urls, or of records with a url
Occurrences(urls, u) == Cardinality({k \in 1..Len(urls) : urls[k] = u})
OutcomesOf(rows, u) == Cardinality({k \in 1..Len(rows) : rows[k].url = u})
\* how often batch position p (0-based, within the list) was pinged
PingsAt(i, p) ==
    Cardinality({n \in 1..Len(inv[i].log) : inv[i].log[n].op = "ping" /\ inv[i].log[n].idx = p})
AllUrls == {"a", "b", "c", "d", "e", "f"}

\* C11: with only=all, a finished run has pinged every position of its batch
\* slice exactly once, and its results hold every url as often as the slice
\* does: none twice, none left out, for every concurrency setting and order of
\* completion.
C11_OneOutcomePerSlot ==
    \A i \in Inv : Done(i) /\ inv[i].only = "all" =>
        /\ \A p \in 0..(Len(inv[i].plan.batch) - 1) : PingsAt(i, inv[i].plan.start + p) = 1
        /\ Len(inv[i].res.summary) = Len(inv[i].plan.batch)
        /\ \A u \in AllUrls : OutcomesOf(inv[i].res.summary, u) = Occurrences(inv[i].plan.batch, u)

\* C12: the effective concurrency of a run is a number from 1 to 6 whatever
\* PING_CONCURRENCY holds, and at every moment of the fan-out the requests in
\* flight are at most that many and at most the batch size.
C12_InFlightWithinConcurrency ==
    \A i \in Inv : (inv[i].pc = "pool" \/ Done(i)) =>
        /\ MAX_CONCURRENCY(env) # NaN
        /\ MAX_CONCURRENCY(env).v >= 1
        /\ MAX_CONCURRENCY(env).v <= ConcurrencyCeiling
        /\ Cardinality(inv[i].inflight) <= MAX_CONCURRENCY(env).v
        /\ Cardinality(inv[i].inflight) <= Len(inv[i].plan.batch)

\* the records of a run that stand for a request without response
NoResponse(r) == "error" \in DOMAIN r
TimedOut(r) == NoResponse(r) /\ r.error = "timeout"
\* the number of ping requests a run has issued
PingCount(i) == Cardinality({n \in 1..Len(inv[i].log) : inv[i].log[n].op = "ping"})

\* C13: a run that has issued ping requests never ends in an exception; each
\* request that failed or ran into the deadline has its record; once the pool
\* has drained, every position of the slice was pinged, every endpoint that
\* gives no response has a record with status 0, and the report is done.
C13_FailureIsAnOutcome ==
    \A i \in Inv : Pinged(i) =>
        /\ inv[i].pc # "threw"
        /\ Len(inv[i].summary) + Cardinality(inv[i].inflight) = PingCount(i)
        /\ inv[i].pc # "pool" =>
              /\ inv[i].res # None /\ inv[i].res.status = "done"
              /\ \A p \in 1..Len(inv[i].plan.batch) :
                    /\ PingsAt(i, inv[i].plan.start + p - 1) = 1
                    /\ EndpointFate(inv[i].plan.batch[p]) # "response" =>
                          \E k \in 1..Len(inv[i].summary) :
                              /\ inv[i].summary[k].url = inv[i].plan.batch[p]
                              /\ NoResponse(inv[i].summary[k])
                              /\ inv[i].summary[k].status = 0

\* a run has answered done with a timeout, a failed fetch and a success among
\* its outcomes
C13_Witness ==
    \E i \in Inv :
        /\ Done(i)
        /\ \E k \in 1..Len(inv[i].summary) : TimedOut(inv[i].summary[k])
        /\ \E k \in 1..Len(inv[i].summary) :
              NoResponse(inv[i].summary[k]) /\ ~TimedOut(inv[i].summary[k])
        /\ \E k \in 1..Len(inv[i].summary) : inv[i].summary[k].ok

\* C14: an outcome has ok = true exactly when a response came and its status
\* is in 200..299; a response is recorded with its own status, a redirect
\* with its 3xx and ok = false, and no second request follows it; an outcome
\* without response has ok = false, status 0 and an error text that is not
\* empty.
C14_OkIffSuccessStatus ==
    \A i \in Inv : \A k \in 1..Len(inv[i].summary) :
        LET r == inv[i].summary[k]
        IN /\ r.ok <=> (~NoResponse(r) /\ r.status >= 200 /\ r.status <= 299)
           /\ ~NoResponse(r) => r.status = EndpointStatus(r.url) /\ r.status # 0
           /\ (~NoResponse(r) /\ r.status >= 300 /\ r.status <= 399) => ~r.ok
           /\ NoResponse(r) => ~r.ok /\ r.status = 0 /\ r.error # ""
           /\ PingCount(i) <= Len(inv[i].plan.batch)

\* a run has recorded a redirect, a success and a request without response
C14_Witness ==
    \E i \in Inv :
        /\ \E k \in 1..Len(inv[i].summary) :
              inv[i].summary[k].status = 301 /\ ~inv[i].summary[k].ok
        /\ \E k \in 1..Len(inv[i].summary) :
              inv[i].summary[k].status = 204 /\ inv[i].summary[k].ok
        /\ \E k \in 1..Len(inv[i].summary) : NoResponse(inv[i].summary[k])

\* the positions a batch of the fan-out runs can have
PoolPositions == 0..3

\* C15: the outcome of an endpoint that never responds is the timeout record
\* (ok = false, status 0, error "timeout"); every ping request that was
\* started gets its outcome, and every fan-out that was started ends with the
\* answer of the run.
C15_DeadlineEndsEveryPing ==
    /\ [](\A i \in Inv : \A k \in 1..Len(inv[i].summary) :
            EndpointFate(inv[i].summary[k].url) = "silent" =>
                inv[i].summary[k] = [url |-> inv[i].summary[k].url, ok |-> FALSE,
                                     status |-> 0, error |-> "timeout"])
    /\ \A i \in Inv : \A p \in PoolPositions :
          (p \in inv[i].inflight) ~> (p \notin inv[i].inflight)
    /\ \A i \in Inv : (inv[i].pc = "pool") ~> (inv[i].pc = "responded")

\* a run has answered after its request to a silent endpoint timed out
C15_Witness ==
    \E i \in Inv :
        /\ Done(i)
        /\ \E k \in 1..Len(inv[i].summary) :
              EndpointFate(inv[i].summary[k].url) = "silent" /\ TimedOut(inv[i].summary[k])

----------------------------------------------------------------------------
(* Properties: the totals of the report *)

\* the outcomes of a run, before the only filter, that are a success, or not
Successes(i) == Cardinality({k \in 1..Len(inv[i].summary) : inv[i].summary[k].ok})
Failures(i) == Cardinality({k \in 1..Len(inv[i].summary) : ~inv[i].summary[k].ok})
\* every endpoint of the batch has answered with a status
AllAnswered(i) ==
    /\ Len(inv[i].summary) = Len(inv[i].plan.batch)
    /\ \A k \in 1..Len(inv[i].summary) : ~NoResponse(inv[i].summary[k])

\* C16 as stated: when the m + k endpoints of a batch have answered, m with a
\* 2xx and k with another status, the report of the run has totals.ok = m and
\* totals.fail = k, totals.total = k + m when the batch is the whole list, and
\* with only=fail it has exactly k result rows.
C16_TotalsCountTheBatch ==
    \A i \in Inv : Done(i) /\ AllAnswered(i) =>
        /\ inv[i].res.totals.ok = Successes(i)
        /\ inv[i].res.totals.fail = Failures(i)
        /\ inv[i].plan.batch = inv[i].endpoints =>
              inv[i].res.totals.total = Successes(i) + Failures(i)
        /\ inv[i].only = "fail" => Len(inv[i].res.summary) = Failures(i)


\* C16, amended: when the m + k endpoints of a batch have answered, m with a
\* 2xx and k with another status, then with only=all the report has k + m
\* rows, totals.ok = m and totals.fail = k; with only=fail it has exactly k
\* rows, totals.fail = k and totals.ok = 0; with only=success it has exactly m
\* rows, totals.ok = m and totals.fail = 0; whatever the filter,
\* totals.batchCount = k + m, and totals.total = k + m when the batch is the
\* whole list.
C16_TotalsCountTheRows ==
    \A i \in Inv : Done(i) /\ AllAnswered(i) =>
        LET t == inv[i].res.totals
            rows == Len(inv[i].res.summary)
            m == Successes(i)
            k == Failures(i)
        IN /\ t.batchCount = k + m
           /\ inv[i].plan.batch = inv[i].endpoints => t.total = k + m
           /\ inv[i].only = "all" => rows = k + m /\ t.ok = m /\ t.fail = k
           /\ inv[i].only = "fail" => rows = k /\ t.ok = 0 /\ t.fail = k
           /\ inv[i].only = "success" => rows = m /\ t.ok = m /\ t.fail = 0

\* a run with only=fail over its whole list, of which one endpoint answered
\* 2xx and one did not, has answered
C16_Witness ==
    \E i \in Inv :
        /\ Done(i) /\ AllAnswered(i)
        /\ inv[i].only = "fail"
        /\ inv[i].plan.batch = inv[i].endpoints
        /\ Successes(i) >= 1 /\ Failures(i) >= 1


\* the list doPing resolves for run i, before the limit
ResolvedList(i) == ResolveEndpoints(kv[EP_KEY], inv[i].pEndpoints, env.PING_ENDPOINTS)

----------------------------------------------------------------------------
(* Properties: what fetch does with a request *)

\* the requests fetch lets through to doPing
Authorized(r) == r.method = "POST" /\ r.auth # None /\ r.auth = Header("Bearer", XMLRPC_PING_SECRET)

\* C18: a POST whose Authorization header is missing or is not "Bearer
\* <secret>" is answered 401, and a request that is neither a POST nor GET
\* /health is answered 405; neither has read or written a key or sent a ping.
C18_RejectedWithoutEffect ==
    \A i \in Inv : inv[i].req # None =>
        LET r == inv[i].req
        IN /\ (r.method = "POST" /\ ~Authorized(r)) =>
                 inv[i].pc = "rejected" /\ inv[i].http = 401 /\ inv[i].log = <<>>
           /\ (r.method # "POST" /\ ~(r.method = "GET" /\ r.path = "/health")) =>
                 inv[i].pc = "rejected" /\ inv[i].http = 405 /\ inv[i].log = <<>>
           /\ inv[i].pc = "rejected" => kv[RL_KEY] = None /\ kv[RESULT_KEY] = None /\ kv[DRY_KEY] = None

\* a POST without Authorization header has been answered 401 while a list is
\* stored
C18_Witness ==
    \E i \in Inv :
        /\ inv[i].req # None /\ inv[i].req.method = "POST" /\ inv[i].req.auth = None
        /\ inv[i].http = 401
        /\ kv[EP_KEY] = List(<<"a", "b", "c">>)

\* C19: an authorized POST whose body is no JSON starts its run in the state
\* the same request with body {} starts it in: the same cursor, limit, filter
\* and payload, so all that follows is the same.
C19_UnparseableBodyIsEmptyObject ==
    [][\A i \in Inv :
          (inv[i].pc = "idle" /\ inv'[i].pc # "idle" /\ inv'[i].req # None
             /\ Authorized(inv'[i].req) /\ inv'[i].req.body = Unparseable) =>
          /\ inv'[i].pc \in {"resolve", "rate_check"}
          /\ inv'[i] = [Started(i, [inv'[i].req EXCEPT !.body = EmptyObj]) EXCEPT !.req = inv'[i].req]]_vars

\* an authorized POST whose body is no JSON has been answered with the report
\* of its pings
C19_Witness ==
    \E i \in Inv :
        /\ inv[i].req # None /\ Authorized(inv[i].req) /\ inv[i].req.body = Unparseable
        /\ inv[i].pc = "responded" /\ inv[i].res.status = "done"
        /\ Pinged(i)

\* C20: no authorized POST ends in an exception, whatever its body, the value
\* of PING_ENDPOINTS and the value stored as endpoint list: it is answered
\* with a report.
C20_AlwaysAReport ==
    \A i \in Inv : (inv[i].req # None /\ Authorized(inv[i].req)) =>
        /\ inv[i].pc # "threw"
        /\ inv[i].pc = "responded" => inv[i].res.status \in {"done", "skipped"}

----------------------------------------------------------------------------
(* Properties: the scheduled trigger *)

IsScheduled(i) == inv[i].kind = "scheduled"
\* the one KV operation of a tick that found its change id stored
SeenOnly == <<Ev("get", LAST_KEY, "scheduled", -1)>>
\* the position of the first entry of a trace with operation op on key k; 0
\* when there is none
FirstAt(log, op, k) ==
    IF \E n \in 1..Len(log) : log[n].op = op /\ log[n].k = k
    THEN CHOOSE n \in 1..Len(log) :
            /\ log[n].op = op /\ log[n].k = k
            /\ \A m \in 1..(n - 1) : ~(log[m].op = op /\ log[m].k = k)
    ELSE 0
\* run i has stored its change id and no run started later has stored one
LastMarker(i) ==
    /\ IsScheduled(i) /\ HasEvent(i, "put", LAST_KEY)
    /\ \A k \in Inv : (k # i /\ HasEvent(k, "put", LAST_KEY)) => inv[k].serial < inv[i].serial

\* C21: a scheduled invocation whose detector gave no change id has ended
\* with an empty trace; one whose change id equals the stored last-seen
\* marker has ended with the read of that marker as its only operation: no
\* ping request, no read of the rate-limit marker, no KV write.
C21_NothingNewNothingDone ==
    \A i \in Inv : IsScheduled(i) =>
        /\ inv[i].detected.t = "none" => inv[i].pc = "ended" /\ inv[i].log = <<>>
        /\ (inv[i].seen # None /\ inv[i].seen.v = inv[i].latest.id) =>
              inv[i].pc = "ended" /\ inv[i].log = SeenOnly

\* a tick has ended on finding its change id stored while no rate-limit
\* marker is stored
C21_Witness ==
    \E i \in Inv :
        /\ IsScheduled(i) /\ inv[i].pc = "ended"
        /\ inv[i].seen # None /\ inv[i].seen.v = inv[i].latest.id
        /\ kv[RL_KEY] = None

\* C22: a scheduled invocation whose detector threw (the fetch rejected, the
\* body was no JSON), answered not ok or answered without an id has ended
\* without an exception leaving the handler and with an empty trace: no ping
\* request and no KV write.
C22_DetectorFailureIsSwallowed ==
    \A i \in Inv :
        (IsScheduled(i) /\ "why" \in DOMAIN inv[i].detected
           /\ inv[i].detected.why \in {"reject", "badjson", "notok", "noid"}) =>
        /\ inv[i].pc = "ended"
        /\ inv[i].log = <<>>
        /\ inv[i].http = 0

\* a tick whose detector threw has ended while nothing is stored as last-seen
C22_Witness ==
    \E i \in Inv :
        /\ IsScheduled(i) /\ inv[i].detected.t = "throw" /\ inv[i].pc = "ended"
        /\ kv[LAST_KEY] = None /\ kv[RL_KEY] = None

\* C23: a scheduled invocation whose fan-out has completed stores its change
\* id as last-seen; the marker holds that id until a later run stores
\* another, and a later tick that detects the same id ends after reading the
\* marker, without a ping request.
C23_CompletedRunMarksChange ==
    \A i \in Inv : IsScheduled(i) =>
        /\ (inv[i].res # None /\ inv[i].res.status = "done"
              /\ inv[i].pc \in {"sched_lock", "sched_log", "ended"}) =>
              HasEvent(i, "put", LAST_KEY)
        /\ LastMarker(i) =>
              /\ kv[LAST_KEY] = [t |-> "id", v |-> inv[i].latest.id]
              /\ \A j \in Inv :
                    (IsScheduled(j) /\ inv[j].serial > inv[i].serial
                       /\ inv[j].latest = inv[i].latest /\ HasEvent(j, "get", LAST_KEY)) =>
                    inv[j].pc = "ended" /\ inv[j].log = SeenOnly

\* after a tick pinged and stored its change id, and after the rate-limit
\* marker has expired, a later tick that detects the same id has ended
C23_Witness ==
    \E i, j \in Inv :
        /\ LastMarker(i) /\ inv[i].res.status = "done" /\ Pinged(i)
        /\ IsScheduled(j) /\ inv[j].serial > inv[i].serial
        /\ inv[j].latest = inv[i].latest /\ inv[j].pc = "ended" /\ inv[j].log = SeenOnly
        /\ kv[RL_KEY] = None

\* C24: a scheduled invocation that stores its change id has, before that,
\* sent one ping request to every endpoint of its resolved list, whatever the
\* length of the list.
C24_EveryEndpointBeforeMark ==
    \A i \in Inv : (IsScheduled(i) /\ HasEvent(i, "put", LAST_KEY)) =>
        /\ inv[i].res.status = "done"
        /\ \A p \in 0..(Len(inv[i].endpoints) - 1) :
              /\ PingsAt(i, p) = 1
              /\ \E n \in 1..FirstAt(inv[i].log, "put", LAST_KEY) :
                    inv[i].log[n].op = "ping" /\ inv[i].log[n].idx = p

----------------------------------------------------------------------------
(* Properties: the request body *)

\* the entity of one character, the character itself when it has none
Entity(ch) ==
    CASE ch = "&" -> AMP
      [] ch = "<" -> LT
      [] ch = ">" -> GT
      [] ch = "\"" -> QUOT
      [] ch = "'" -> APOS
      [] OTHER -> <<ch>>
Entities == {AMP, LT, GT, QUOT, APOS}
RECURSIVE PerChar(_)
\* every character of s replaced by its entity, one character at a time
PerChar(s) == IF s = <<>> THEN <<>> ELSE Entity(Head(s)) \o PerChar(Tail(s))
\* text t stands in text s from position n on
StandsAt(s, n, t) == n + Len(t) - 1 <= Len(s) /\ SubSeq(s, n, n + Len(t) - 1) = t
RECURSIVE Unescape(_)
\* every entity of o replaced by its character, from left to right
Unescape(o) ==
    IF o = <<>> THEN <<>>
    ELSE IF \E e \in Entities : StandsAt(o, 1, e)
         THEN LET e == CHOOSE x \in Entities : StandsAt(o, 1, x)
                  ch == CHOOSE c \in {"&", "<", ">", "\"", "'"} : Entity(c) = e
              IN  <<ch>> \o Unescape(SubSeq(o, Len(e) + 1, Len(o)))
         ELSE <<Head(o)>> \o Unescape(Tail(o))
\* the k-th smallest member of a set of numbers
NthOf(S, k) == CHOOSE n \in S : Cardinality({m \in S : m < n}) = k - 1
XmlDone(fn) == io.pc = "done" /\ io.fn = fn

\* C25: the body xmlRpc returns is the template with the method name and,
\* in order, one <param> element per parameter and nothing between them; the
\* text of each element is the parameter with every & < > " ' replaced by
\* its entity and every other character unchanged, so it holds none of
\* < > " ' and no & that does not begin one of the five entities.
C25_ParametersAreEscapedInOrder ==
    XmlDone("xmlRpc") =>
        LET out == io.out
            ps == io.arg.params
            opens == {n \in 1..Len(out) : out[n] = PARAM_OPEN}
            closes == {n \in 1..Len(out) : out[n] = PARAM_CLOSE}
            seg(k) == SubSeq(out, NthOf(opens, k) + 1, NthOf(closes, k) - 1)
        IN  /\ out[1] = XML_HEAD /\ out[2] = io.arg.method /\ out[3] = XML_MID
            /\ out[Len(out)] = XML_TAIL
            /\ Cardinality(opens) = Len(ps) /\ Cardinality(closes) = Len(ps)
            /\ \A k \in 1..Len(ps) :
                  /\ NthOf(opens, k) = (IF k = 1 THEN 4 ELSE NthOf(closes, k - 1) + 1)
                  /\ NthOf(opens, k) < NthOf(closes, k)
                  /\ k = Len(ps) => NthOf(closes, k) = Len(out) - 1
                  /\ seg(k) = PerChar(ps[k])
                  /\ \A n \in 1..Len(seg(k)) :
                        /\ seg(k)[n] \notin {"<", ">", "\"", "'"}
                        /\ seg(k)[n] = "&" => \E e \in Entities : StandsAt(seg(k), n, e)
            /\ Len(ps) = 0 => Len(out) = 4

\* xmlRpc has returned the body of three parameters, one with an ampersand
\* and one with an angle bracket
C25_Witness ==
    /\ XmlDone("xmlRpc") /\ Len(io.arg.params) = 3
    /\ \E k \in 1..3 : \E n \in 1..Len(io.arg.params[k]) : io.arg.params[k][n] = "&"
    /\ \E k \in 1..3 : \E n \in 1..Len(io.arg.params[k]) : io.arg.params[k][n] = "<"

\* C26: escapeXml replaces character by character: its result is the
\* entities of the characters of its argument one after the other, so where
\* the argument holds the text &amp; the result holds &amp;amp;, the
\* ampersand of an entity that stands for < > " or ' is not escaped again,
\* and replacing every entity of the result by its character gives the
\* argument back.
C26_EscapeIsPerCharacter ==
    XmlDone("escapeXml") =>
        LET s == io.arg
            out == io.out
        IN  /\ out = PerChar(s)
            /\ Unescape(out) = s
            /\ \A n \in 1..Len(s) :
                  LET at == Len(PerChar(SubSeq(s, 1, n - 1))) + 1
                  IN  /\ StandsAt(s, n, AMP) => StandsAt(out, at, AMP \o Tail(AMP))
                      /\ s[n] \in {"<", ">", "\"", "'"} =>
                            StandsAt(out, at, Entity(s[n])) /\ ~StandsAt(out, at, AMP)

\* escapeXml has returned for a text that holds an entity and a character to
\* escape
C26_Witness ==
    /\ XmlDone("escapeXml")
    /\ \E n \in 1..Len(io.arg) : StandsAt(io.arg, n, AMP)
    /\ \E n \in 1..Len(io.arg) : io.arg[n] \in {"<", ">", "\"", "'"}

----------------------------------------------------------------------------
(* Properties: the method and the endpoint list of a run *)

\* the member f of the body of the request of run i, undefined when the body
\* is no object
Sent(i, f) == Member(SafeJson(inv[i].req.body), f)
\* the text between the k-th <string> and </string> of a request body
ParamText(body, k) ==
    SubSeq(body, NthOf({n \in 1..Len(body) : body[n] = PARAM_OPEN}, k) + 1,
                 NthOf({n \in 1..Len(body) : body[n] = PARAM_CLOSE}, k) - 1)
ParamCount(body) == Cardinality({n \in 1..Len(body) : body[n] = PARAM_OPEN})

\* C27: with the feed URL of a manual run taken from the body and, when the
\* body has none, from FEED_URL: the request body names
\* weblogUpdates.extendedPing and carries three parameters, the third the
\* feed URL, exactly when that feed URL is a text that is not empty; else it
\* names weblogUpdates.ping and carries two; the first two parameters are the
\* site name and the site URL, and the method member of the report is the
\* method name of the request body.
C27_ExtendedIffFeedUrl ==
    \A i \in Inv : (IsManual(i) /\ inv[i].rpc # None) =>
        LET body == inv[i].rpc.bodyXml
            feed == IF Sent(i, "feedUrl") # None THEN Sent(i, "feedUrl") ELSE env.FEED_URL
            name == IF Sent(i, "siteName") # None THEN Sent(i, "siteName")
                    ELSE IF env.SITE_NAME # None THEN env.SITE_NAME ELSE Str(DEFAULT_SITE_NAME)
            url == IF Sent(i, "siteUrl") # None THEN Sent(i, "siteUrl")
                   ELSE IF env.SITE_URL # None THEN env.SITE_URL ELSE Str(DEFAULT_SITE_URL)
        IN  /\ IF feed # None /\ Len(feed.v) > 0
               THEN /\ body[2] = "weblogUpdates.extendedPing"
                    /\ ParamCount(body) = 3
                    /\ ParamText(body, 3) = PerChar(feed.v)
               ELSE /\ body[2] = "weblogUpdates.ping"
                    /\ ParamCount(body) = 2
            /\ ParamText(body, 1) = PerChar(name.v)
            /\ ParamText(body, 2) = PerChar(url.v)
            /\ (inv[i].res # None /\ inv[i].res.status = "done") => inv[i].res.method = body[2]

\* a run whose body gives the empty text as feed URL while FEED_URL is set
\* has reported
C27_Witness ==
    \E i \in Inv :
        /\ IsManual(i) /\ inv[i].res # None /\ inv[i].res.status = "done"
        /\ Sent(i, "feedUrl") = Str(<<>>)
        /\ env.FEED_URL # None /\ env.FEED_URL.v # <<>>
        /\ Pinged(i)

\* C28: a manual run that has built its endpoint list without throwing
\* (no limit given) has the stored list when that is an array that is not
\* empty, whatever the body holds; else the endpoints array of the body, empty
\* or not; else the list of PING_ENDPOINTS; else the built-in minimal list.
C28_EndpointSourcePriority ==
    \A i \in Inv :
        (IsManual(i) /\ HasEvent(i, "get", EP_KEY) /\ inv[i].pc # "threw" /\ inv[i].limit = 0) =>
        LET stored == kv[EP_KEY]
            sent == Sent(i, "endpoints")
            conf == env.PING_ENDPOINTS
        IN  IF stored.t = "list" /\ Len(stored.v) > 0 THEN inv[i].endpoints = stored.v
            ELSE IF sent.t = "list" THEN inv[i].endpoints = sent.v
            ELSE IF conf.t = "list" THEN inv[i].endpoints = conf.v
            ELSE conf = None /\ inv[i].endpoints = minimal_endpoints

\* a run whose body gives a list has reported on the pings of the stored
\* list, which is another
C28_Witness ==
    \E i \in Inv :
        /\ IsManual(i) /\ inv[i].res # None /\ inv[i].res.status = "done" /\ Pinged(i)
        /\ Sent(i, "endpoints").t = "list"
        /\ kv[EP_KEY].t = "list" /\ Len(kv[EP_KEY].v) > 0
        /\ kv[EP_KEY].v # Sent(i, "endpoints").v

\* C29: in every done report subrequestBudget is an integer from 1 to 1000,
\* whatever SUBREQ_BUDGET is set to; the batch holds at least one endpoint
\* while batchStart is below the total, and never more than the budget.
C29_BudgetWithinClamp ==
    \A i \in Inv : (inv[i].res # None /\ inv[i].res.status = "done") =>
        LET r == inv[i].res
        IN  /\ r.subrequestBudget.t = "num"
            /\ r.subrequestBudget.v \in 1..BudgetCeiling
            /\ r.totals.batchStart < r.totals.total => r.totals.batchCount >= 1
            /\ r.totals.batchCount <= r.subrequestBudget.v

----------------------------------------------------------------------------
(* Properties: the CSV export *)

RECURSIVE FieldText(_, _)
\* the text of a value in a field, position by position from p on: a quote
\* is doubled, a LF is a space, a CR before a LF is part of that line break
\* and any other character stands for itself
FieldText(s, p) ==
    IF p > Len(s) THEN <<>>
    ELSE (IF s[p] = "\"" THEN <<"\"", "\"">>
          ELSE IF s[p] = "\n" THEN <<" ">>
          ELSE IF s[p] = "\r" /\ p < Len(s) /\ s[p + 1] = "\n" THEN <<>>
          ELSE <<s[p]>>) \o FieldText(s, p + 1)
\* the field of a value: what is shown of it, in quotes
Field(v) == <<"\"">> \o FieldText(IF v = None THEN <<>> ELSE JsString(v), 1) \o <<"\"">>
\* the record of one outcome
Record(r) ==
    Field(r.url) \o <<",">> \o Field(r.ok) \o <<",">> \o Field(r.status) \o <<",">>
       \o Field(r.ms) \o <<",">> \o Field(r.error) \o <<",">> \o Field(r.bodySnippet)
\* the positions of text o where a CR LF pair begins
CrLfAt(o) == {k \in 1..(Len(o) - 1) : o[k] = "\r" /\ o[k + 1] = "\n"}

\* C30: the text toCsv returns for n outcomes begins with the header
\* url,ok,status,ms,error,bodySnippet and holds exactly n CR LF pairs, one
\* before the record of each outcome, and no LF elsewhere; the record of an
\* outcome is its six values in quotes with commas between, each value with
\* every quote doubled and every line break (LF, or CR LF) replaced by one
\* space, so that no field holds a LF or a quote that is not doubled.
C30_CsvRecords ==
    (io.pc = "done" /\ io.fn = "toCsv") =>
        LET out == io.out
            rows == io.arg
            n == Len(rows)
            from(k) == NthOf(CrLfAt(out), k) + 2
            to(k) == IF k = n THEN Len(out) ELSE NthOf(CrLfAt(out), k + 1) - 1
        IN  /\ out[1] = CSV_HEADER
            /\ Cardinality(CrLfAt(out)) = n
            /\ n > 0 => NthOf(CrLfAt(out), 1) = 2
            /\ \A k \in 1..Len(out) : out[k] = "\n" => (k - 1) \in CrLfAt(out)
            /\ \A k \in 1..n :
                  /\ SubSeq(out, from(k), to(k)) = Record(rows[k])
                  /\ \A f \in {"url", "ok", "status", "ms", "error", "bodySnippet"} :
                        LET t == Field(rows[k][f])
                        IN  /\ t[1] = "\"" /\ t[Len(t)] = "\"" /\ Len(t) >= 2
                            /\ \A q \in 2..(Len(t) - 1) : t[q] # "\n"
                            /\ Cardinality({q \in 2..(Len(t) - 1) : t[q] = "\""}) % 2 = 0

\* toCsv has returned for two outcomes, one with an error text that holds a
\* CR LF pair and one with a text that holds a quote
C30_Witness ==
    /\ io.pc = "done" /\ io.fn = "toCsv" /\ Len(io.arg) = 2
    /\ \E k \in 1..2 : io.arg[k].error # None /\ CrLfAt(io.arg[k].error.v) # {}
    /\ \E k \in 1..2 : io.arg[k].error # None
          /\ \E q \in 1..Len(io.arg[k].error.v) : io.arg[k].error.v[q] = "\""

----------------------------------------------------------------------------
(* GET /health *)

IsHealth(i) == inv[i].kind = "health"

\* C31: GET /health, whatever its view, refresh and format, writes nothing
\* to the store and issues no ping: the step that serves it leaves every key
\* and the fan-outs as they were, and all it does is read stored records.
C31_HealthOnlyReads ==
    [][\A i \in Inv : (~IsHealth(i) /\ inv'[i].kind = "health") =>
          /\ kv' = kv
          /\ fanouts' = fanouts
          /\ inv'[i].pc = "served"
          /\ \A n \in 1..Len(inv'[i].log) :
                inv'[i].log[n].op = "get" /\ inv'[i].log[n].at = "readHealth"]_vars

\* /health was served as a page of the failures, refreshing itself, while the
\* result of a real run and the marker were stored
C31_Witness ==
    \E i \in Inv :
        /\ IsHealth(i) /\ inv[i].pc = "served"
        /\ inv[i].res.format = "html" /\ inv[i].res.metaRefresh
        /\ inv[i].res.lastResult # None /\ inv[i].res.locked
        /\ Len(inv[i].res.rows) = 1 /\ Len(inv[i].res.data.summary) = 2

----------------------------------------------------------------------------
(* verbose=1 *)

HasSnippet(r) == "bodySnippet" \in DOMAIN r

\* C32: an outcome carries a body snippet only when verbose is on and a
\* response with a status outside 200..299 was received; the snippet is the
\* start of the body and at most 200 characters long; when the body could not
\* be read the outcome has no snippet and the ping is reported all the same:
\* the run ends done, with one outcome per endpoint of its batch, each
\* response with its status.
C32_SnippetOnlyOfVerboseFailures ==
    \A i \in Inv :
        /\ \A k \in 1..Len(inv[i].summary) :
              LET r == inv[i].summary[k]
              IN  /\ HasSnippet(r) =>
                        /\ inv[i].verbose
                        /\ ~NoResponse(r) /\ EndpointFate(r.url) = "response"
                        /\ ~(r.status >= 200 /\ r.status <= 299)
                        /\ Len(r.bodySnippet) <= 200
                        /\ r.bodySnippet = SubSeq(EndpointBody(r.url), 1, Len(r.bodySnippet))
                        /\ Len(r.bodySnippet) = 200 \/ r.bodySnippet = EndpointBody(r.url)
                  /\ ~NoResponse(r) => r.status = EndpointStatus(r.url)
        /\ IsManual(i) => inv[i].pc # "threw"
        /\ Done(i) => /\ Len(inv[i].summary) = Len(inv[i].plan.batch)
                      /\ inv[i].res.summary = OnlyFilter(inv[i].summary, inv[i].only)

\* a verbose run is done: the 500 of b carries the first 200 of its 203
\* characters, the 301 of d has no snippet because its body could not be
\* read, and neither the 200 of a nor the failed request to e has one
C32_Witness ==
    \E i \in Inv :
        /\ Done(i) /\ inv[i].verbose
        /\ \E k \in 1..Len(inv[i].res.summary) : LET r == inv[i].res.summary[k]
              IN r.url = "b" /\ HasSnippet(r) /\ Len(r.bodySnippet) = 200
        /\ \E k \in 1..Len(inv[i].res.summary) : LET r == inv[i].res.summary[k]
              IN r.url = "d" /\ r.status = 301 /\ ~HasSnippet(r)
        /\ \E k \in 1..Len(inv[i].res.summary) : LET r == inv[i].res.summary[k]
              IN r.url = "a" /\ r.ok /\ ~HasSnippet(r)
        /\ \E k \in 1..Len(inv[i].res.summary) : LET r == inv[i].res.summary[k]
              IN r.url = "e" /\ NoResponse(r) /\ ~HasSnippet(r)

----------------------------------------------------------------------------
(* The batch of a run and the rate-limit marker *)

\* C33 as stated: every done report has
\* 0 <= batchStart <= batchEnd <= total and batchCount = batchEnd - batchStart,
\* whatever the cursor, a cursor beyond the end of the list included.
C33_BatchTotalsOrdered ==
    \A i \in Inv : Done(i) =>
        LET t == inv[i].res.totals
        IN  /\ 0 <= t.batchStart
            /\ t.batchStart <= t.batchEnd
            /\ t.batchEnd <= t.total
            /\ t.batchCount = t.batchEnd - t.batchStart

\* C34 as stated: xmlrpc:last-seen is written only by a scheduled invocation
\* whose own doPing answered done; a scheduled invocation whose doPing was
\* skipped leaves it as it was, in every interleaving.
C34_SeenOnlyAfterDone ==
    \A i \in Inv :
        (IsScheduled(i) /\ HasEvent(i, "put", LAST_KEY)) => inv[i].res.status = "done"

\* the positions of an invocation's trace that write the rate-limit marker,
\* and those that issue a ping request
MarkerPuts(i) ==
    {n \in 1..Len(inv[i].log) : inv[i].log[n].op = "put" /\ inv[i].log[n].k = RL_KEY}
PingPositions(i) == {n \in 1..Len(inv[i].log) : inv[i].log[n].op = "ping"}

\* C35 as stated: a real run writes the rate-limit marker exactly once, and
\* before it dispatches; an invocation whose doPing was skipped never writes
\* it, and nothing after the fan-out writes or refreshes it.
C35_MarkerWrittenOnceBeforeDispatch ==
    \A i \in Inv :
        /\ Cardinality(MarkerPuts(i)) <= 1
        /\ \A n \in MarkerPuts(i), m \in PingPositions(i) : n < m
        /\ inv[i].res = Skipped => MarkerPuts(i) = {}
        /\ (IsReal(i) /\ inv[i].res # None /\ inv[i].res.status = "done") =>
              Cardinality(MarkerPuts(i)) = 1

\* C36 as stated: a real run that has written the rate-limit marker issues
\* at least one ping request: no run whose batch is empty (empty list, or a
\* cursor at or beyond the end of the list) takes the one-hour lock.
C36_LockOnlyWithPings ==
    \A i \in Inv :
        (IsReal(i) /\ MarkerPuts(i) # {} /\ inv[i].res # None /\ inv[i].res.status = "done")
            => Pinged(i)

----------------------------------------------------------------------------
(* The totals of a report *)

OkRows(rows) == Cardinality({k \in 1..Len(rows) : rows[k].ok})
FailRows(rows) == Cardinality({k \in 1..Len(rows) : ~rows[k].ok})

----------------------------------------------------------------------------
(* xmlrpc:last-seen and the manual trigger *)

\* a scheduled invocation has written xmlrpc:last-seen
SeenMarked == \E j \in Inv : IsScheduled(j) /\ HasEvent(j, "put", LAST_KEY)

\* C38: a manual invocation never writes xmlrpc:last-seen: the key changes
\* only in the step of a scheduled invocation that marks its change id; so,
\* whatever manual runs have done, as long as no scheduled invocation has
\* marked a change a tick with a change id is not stopped by the seen check,
\* and calls doPing when it finds no marker.
C38_ManualLeavesSeenAlone ==
    [][/\ \A i \in Inv : inv'[i].kind = "manual" =>
             \A n \in 1..Len(inv'[i].log) :
                 ~(inv'[i].log[n].op = "put" /\ inv'[i].log[n].k = LAST_KEY)
       /\ kv'[LAST_KEY] # kv[LAST_KEY] =>
             \E i \in Inv : IsScheduled(i) /\ inv[i].pc = "sched_mark" /\ inv'[i].pc = "sched_lock"
       /\ \A i \in Inv :
             (IsScheduled(i) /\ inv[i].pc = "sched_seen" /\ inv'[i] # inv[i] /\ ~SeenMarked)
                 => inv'[i].pc = "sched_rl"
       /\ \A i \in Inv :
             (IsScheduled(i) /\ inv[i].pc = "sched_rl" /\ inv'[i] # inv[i] /\ kv[RL_KEY] = None)
                 => inv'[i].pc = "rate_check"]_vars

\* a manual real run has pinged and answered done; a tick that started after
\* it, once the marker had expired, has pinged for its change id
C38_Witness ==
    \E i, j \in Inv :
        /\ Done(i) /\ IsReal(i) /\ Pinged(i)
        /\ IsScheduled(j) /\ inv[j].serial > inv[i].endSerial
        /\ inv[j].seen = None /\ Pinged(j)

----------------------------------------------------------------------------
(* What /health shows *)

\* an authenticated manual trigger that has been answered
Answered(i) == IsManual(i) /\ inv[i].pc = "responded"

\* C39 as stated: every authenticated manual trigger overwrites
\* xmlrpc:last-request with {time, body}: once it is answered the key holds
\* the record of a trigger answered no earlier, and /health served afterwards
\* reports a lastRequestAt and the body as lastRequestBody.
C39_TriggerIsRecorded ==
    /\ \A i \in Inv : Answered(i) =>
          /\ HasEvent(i, "put", REQUEST_KEY)
          /\ kv[REQUEST_KEY] # None
    /\ \A i, j \in Inv :
          (Answered(i) /\ IsHealth(j) /\ inv[j].serial > inv[i].endSerial) =>
              /\ inv[j].res.data.lastRequestAt # None
              /\ inv[j].res.data.lastRequestBody # None

\* C40 as stated: /health shows the last real run whenever a record is
\* stored under xmlrpc:last-result, and the last dry run only when none is:
\* the summary rows, the site fields and lastResultAt all come from that one
\* stored record.
C40_HealthShowsOneRecord ==
    \A i \in Inv : (IsHealth(i) /\ inv[i].pc = "served") =>
        LET d == inv[i].res.data
            shown == IF inv[i].res.lastResult # None THEN inv[i].res.lastResult
                     ELSE inv[i].res.lastDry
        IN shown # None =>
              /\ d.lastResultAt = Stamp(shown)
              /\ d.summary = IF HasSummary(shown) THEN shown.result.summary ELSE <<>>
              /\ d.site.name = ResultMember(shown, "siteName")
              /\ d.site.url = ResultMember(shown, "siteUrl")
              /\ d.site.feed = ResultMember(shown, "feedUrl")

====
